---------------------------- MODULE Spec2Model ----------------------------
(***************************************************************************)
(* Smart offline cache: the service worker's fetch state machine, its      *)
(* usage store, its install / activate events, the priority utilities      *)
(* (priority.cjs) and the configuration merge (config.js, index.js).       *)
(*                                                                         *)
(* Two revisions of the worker ship in the repository:                     *)
(*   "sdk"    src/smart-offline-sw.js                                      *)
(*   "portal" src/citizen-portal-demo/public/smart-offline-sw.js           *)
(* Strings are sequences of one-character strings, so that                 *)
(* String.prototype.includes is computed and not assumed.                  *)
(***************************************************************************)
EXTENDS Integers, Sequences, FiniteSets, TLC

VARIABLES
    worker,       \* which revision of the worker script is installed
    SDK_CONFIG,   \* the worker's global configuration object
    now,          \* Date.now()
    usageStore,   \* IndexedDB object store "usage": url -> record
    idbQueue,     \* IndexedDB open requests / transactions, in creation order
    cacheStore,   \* entries of the cache bucket CACHE_NAME: url -> entry
    cacheQueue,   \* cache.put calls issued and not yet settled
    reqs,         \* one record per fetch event being handled
    cacheNames,   \* names of the cache buckets of the origin (caches.keys())
    lifecycle,    \* install / activate progress of the worker
    call          \* harness of the utilities: arguments and result

vars == <<worker, SDK_CONFIG, now, usageStore, idbQueue,
          cacheStore, cacheQueue, reqs, cacheNames, lifecycle, call>>

swVars == <<worker, SDK_CONFIG, now, usageStore, idbQueue,
            cacheStore, cacheQueue, reqs, cacheNames, lifecycle>>

---------------------------------------------------------------------------
(* Bounds of the model *)

MaxCount == 3        \* usage counts drawn for the utilities: 0..MaxCount
MaxTime == 1         \* clock values 0..MaxTime
MaxSig == 2          \* entries of a significance map
MaxFetches == 3      \* fetch events the worker intercepts in one run
MaxReqs == 1         \* fetch events handled at the same time

(* Program constants *)

DEFAULT_FREQUENCY == 3
DEFAULT_RECENCY == 86400000

---------------------------------------------------------------------------
(* JavaScript values *)

Num(n) == [kind |-> "num", n |-> n]
Infinity == [kind |-> "inf", n |-> 0]
Undefined == [kind |-> "undef", n |-> 0]

\* a > b on numbers; any comparison with undefined (NaN) is false
JsGT(a, b) ==
    CASE a.kind = "undef" \/ b.kind = "undef" -> FALSE
      [] a.kind = "inf" -> b.kind # "inf"
      [] b.kind = "inf" -> FALSE
      [] OTHER -> a.n > b.n

JsGE(a, b) ==
    CASE a.kind = "undef" \/ b.kind = "undef" -> FALSE
      [] a.kind = "inf" -> TRUE
      [] b.kind = "inf" -> FALSE
      [] OTHER -> a.n >= b.n

JsLE(a, b) == JsGE(b, a)

\* a ?? d
Coalesce(a, d) == IF a.kind = "undef" THEN d ELSE a

\* usage argument: null/undefined, or a record {url, count, lastAccessed}
NoUsage == [present |-> FALSE, count |-> 0, lastAccessed |-> 0]
Usage(c, t) == [present |-> TRUE, count |-> c, lastAccessed |-> t]

---------------------------------------------------------------------------
(* Strings *)

\* String.prototype.includes
Includes(s, p) ==
    \E i \in 0..(Len(s) - Len(p)) : SubSeq(s, i + 1, i + Len(p)) = p

Digits == {"0", "1", "2", "3", "4", "5", "6", "7", "8", "9"}

DigitVal(c) ==
    CASE c = "0" -> 0 [] c = "1" -> 1 [] c = "2" -> 2 [] c = "3" -> 3
      [] c = "4" -> 4 [] c = "5" -> 5 [] c = "6" -> 6 [] c = "7" -> 7
      [] c = "8" -> 8 [] c = "9" -> 9

\* p < q for digit strings of the same length
LexLess(p, q) ==
    \E i \in 1..Len(p) :
        /\ DigitVal(p[i]) < DigitVal(q[i])
        /\ \A j \in 1..(i - 1) : p[j] = q[j]

\* p < q as numbers, for numerals without leading zeros
NumLess(p, q) ==
    \/ Len(p) < Len(q)
    \/ Len(p) = Len(q) /\ LexLess(p, q)

\* 2^32 - 2, the largest array index
MAX_ARRAY_INDEX == <<"4", "2", "9", "4", "9", "6", "7", "2", "9", "4">>

\* a property key that is a canonical array index ("0", "7", "12", not "07")
IsArrayIndex(p) ==
    /\ Len(p) > 0
    /\ \A i \in 1..Len(p) : p[i] \in Digits
    /\ (p[1] = "0" => Len(p) = 1)
    /\ (p = MAX_ARRAY_INDEX \/ NumLess(p, MAX_ARRAY_INDEX))

---------------------------------------------------------------------------
(* The significance map: an object { pattern: 'high' | 'normal' | 'low' }. *)
(* It is held as the sequence of its properties in insertion order.        *)

Entry(p, s) == [pattern |-> p, sig |-> s]

\* positions of the properties that for-in visits before position i:
\* array-index keys come first, in ascending numeric order, then the
\* other keys in insertion order
VisitedBefore(significance, j, i) ==
    LET pj == significance[j].pattern
        pi == significance[i].pattern
    IN  CASE IsArrayIndex(pj) /\ IsArrayIndex(pi) -> NumLess(pj, pi)
          [] IsArrayIndex(pj) /\ ~IsArrayIndex(pi) -> TRUE
          [] ~IsArrayIndex(pj) /\ IsArrayIndex(pi) -> FALSE
          [] OTHER -> j < i

\* for (const pattern in significance): the properties in enumeration order
ForIn(significance) ==
    LET n == Len(significance)
        rank(i) == Cardinality({j \in 1..n : VisitedBefore(significance, j, i)})
    IN  [k \in 1..n |-> significance[CHOOSE i \in 1..n : rank(i) = k - 1]]

---------------------------------------------------------------------------
(* Configuration *)

Config(pages, apis, debug, freq, rec, max, nq, sig) ==
    [pages |-> pages, apis |-> apis, debug |-> debug,
     frequencyThreshold |-> freq, recencyThreshold |-> rec,
     maxResourceSize |-> max, networkQuality |-> nq, significance |-> sig]

\* faulty variant: the script starts with a page pattern already configured
DefaultConfigWatching ==
    Config(<< <<"a">> >>, <<>>, FALSE, Num(DEFAULT_FREQUENCY),
           Num(DEFAULT_RECENCY), Infinity, "auto", <<>>)

\* let SDK_CONFIG = { ... } at the top of the worker script
DefaultConfig ==
    Config(<<>>, <<>>, FALSE, Num(DEFAULT_FREQUENCY), Num(DEFAULT_RECENCY),
           Infinity, "auto", <<>>)

---------------------------------------------------------------------------
(* Priority utilities, priority.cjs *)

\* the loop of matchesSignificance from property k on: the value of the
\* first property whose key the url contains, "null" when there is none
RECURSIVE matchFrom(_, _, _)
matchFrom(keys, url, k) ==
    IF k > Len(keys) THEN "null"
    ELSE IF Includes(url, keys[k].pattern) THEN keys[k].sig
    ELSE matchFrom(keys, url, k + 1)

matchesSignificance(url, significance) ==
    matchFrom(ForIn(significance), url, 1)

\* faulty variant: the usage check comes before the significance override
isHighPriorityUsageFirst(usage, url, config, t) ==
    LET sig == matchesSignificance(url, config.significance)
        freqThreshold == Coalesce(config.frequencyThreshold, Num(DEFAULT_FREQUENCY))
        recencyThreshold == Coalesce(config.recencyThreshold, Num(DEFAULT_RECENCY))
        frequent == JsGE(Num(usage.count), freqThreshold)
        recent == JsLE(Num(t - usage.lastAccessed), recencyThreshold)
    IN  CASE ~usage.present -> FALSE
          [] sig = "high" -> TRUE
          [] sig = "low" -> FALSE
          [] OTHER -> frequent \/ recent

\* faulty variant: 'low' does not return, it falls through to the usage rule
isHighPriorityLowFallsThrough(usage, url, config, t) ==
    LET sig == matchesSignificance(url, config.significance)
        freqThreshold == Coalesce(config.frequencyThreshold, Num(DEFAULT_FREQUENCY))
        recencyThreshold == Coalesce(config.recencyThreshold, Num(DEFAULT_RECENCY))
        frequent == JsGE(Num(usage.count), freqThreshold)
        recent == JsLE(Num(t - usage.lastAccessed), recencyThreshold)
    IN  CASE sig = "high" -> TRUE
          [] ~usage.present -> FALSE
          [] OTHER -> frequent \/ recent

\* faulty variant: frequent AND recent
isHighPriorityAnd(usage, url, config, t) ==
    LET sig == matchesSignificance(url, config.significance)
        freqThreshold == Coalesce(config.frequencyThreshold, Num(DEFAULT_FREQUENCY))
        recencyThreshold == Coalesce(config.recencyThreshold, Num(DEFAULT_RECENCY))
        frequent == JsGE(Num(usage.count), freqThreshold)
        recent == JsLE(Num(t - usage.lastAccessed), recencyThreshold)
    IN  CASE sig = "high" -> TRUE
          [] sig = "low" -> FALSE
          [] ~usage.present -> FALSE
          [] OTHER -> frequent /\ recent

\* faulty variant: a missing usage record is read as the zero record
isHighPriorityZeroRecord(usage, url, config, t) ==
    LET sig == matchesSignificance(url, config.significance)
        freqThreshold == Coalesce(config.frequencyThreshold, Num(DEFAULT_FREQUENCY))
        recencyThreshold == Coalesce(config.recencyThreshold, Num(DEFAULT_RECENCY))
        frequent == JsGE(Num(usage.count), freqThreshold)
        recent == JsLE(Num(t - usage.lastAccessed), recencyThreshold)
    IN  CASE sig = "high" -> TRUE
          [] sig = "low" -> FALSE
          [] OTHER -> frequent \/ recent

isHighPriority(usage, url, config, t) ==
    LET sig == matchesSignificance(url, config.significance)
        freqThreshold == Coalesce(config.frequencyThreshold, Num(DEFAULT_FREQUENCY))
        recencyThreshold == Coalesce(config.recencyThreshold, Num(DEFAULT_RECENCY))
        frequent == JsGE(Num(usage.count), freqThreshold)
        recent == JsLE(Num(t - usage.lastAccessed), recencyThreshold)
    IN  CASE sig = "high" -> TRUE
          [] sig = "low" -> FALSE
          [] ~usage.present -> FALSE
          [] OTHER -> frequent \/ recent

---------------------------------------------------------------------------
(* isHighPriority of the worker script (both revisions): reads SDK_CONFIG *)

\* the significance loop from property k on: it returns on a matching
\* 'high' or 'low' and goes on to the next property otherwise
RECURSIVE swScanFrom(_, _, _)
swScanFrom(keys, url, k) ==
    IF k > Len(keys) THEN "none"
    ELSE IF Includes(url, keys[k].pattern) /\ keys[k].sig = "high" THEN "high"
    ELSE IF Includes(url, keys[k].pattern) /\ keys[k].sig = "low" THEN "low"
    ELSE swScanFrom(keys, url, k + 1)

swIsHighPriority(usage, url, config, t) ==
    LET sig == swScanFrom(ForIn(config.significance), url, 1)
        frequent == JsGE(Num(usage.count), config.frequencyThreshold)
        recent == JsLE(Num(t - usage.lastAccessed), config.recencyThreshold)
    IN  CASE sig = "high" -> TRUE
          [] sig = "low" -> FALSE
          [] ~usage.present -> FALSE
          [] OTHER -> frequent \/ recent

---------------------------------------------------------------------------
(* Inputs of the utilities *)

Patterns == {<<"a">>, <<"1", "2">>, <<"2">>}
Urls == {<<"a", "1", "2">>, <<"2", "a">>, <<"b">>}
Sigs == {"high", "normal", "low"}

SeqsUpTo(S, n) == UNION {[1..k -> S] : k \in 0..n}

\* an object has one property per key
SigMaps ==
    {m \in SeqsUpTo({Entry(p, s) : p \in Patterns, s \in Sigs}, MaxSig) :
        \A i, j \in 1..Len(m) : m[i].pattern = m[j].pattern => i = j}

Times == (0..MaxTime) \cup {DEFAULT_RECENCY + 1}

FreqValues == {Undefined, Num(0), Num(2)}
RecValues == {Undefined, Num(0), Num(1)}

UtilConfigs ==
    {Config(<<>>, <<>>, FALSE, f, r, Infinity, "auto", m) :
        f \in FreqValues, r \in RecValues, m \in SigMaps}

UsageArgs ==
    {NoUsage} \cup {Usage(c, t) : c \in 0..MaxCount, t \in Times}

NoCall == [fn |-> "none"]

CallPriority ==
    /\ call.fn = "priority.isHighPriority"
    /\ ~call.done
    /\ call' = [call EXCEPT !.done = TRUE,
                 !.value = isHighPriority(call.usage, call.url, call.config, call.t)]
    /\ UNCHANGED swVars

CallWorkerPriority ==
    /\ call.fn = "worker.isHighPriority"
    /\ ~call.done
    /\ call' = [call EXCEPT !.done = TRUE,
                 !.value = swIsHighPriority(call.usage, call.url, call.config, call.t)]
    /\ UNCHANGED swVars

---------------------------------------------------------------------------
(* The worker script *)

Revisions == {"sdk", "portal"}

\* getEffectiveNetworkQuality(): conn is navigator.connection's
\* effectiveType, "none" when the browser has no connection object
swGetEffectiveNetworkQuality(conn, config) ==
    IF config.networkQuality # "auto" THEN config.networkQuality
    ELSE IF conn # "none" /\ conn \in {"slow-2g", "2g", "3g"} THEN "slow"
    ELSE "fast"

\* const size = contentLength ? parseInt(contentLength, 10) : 0
\* a header that does not parse gives NaN, held as Undefined
NoHeader == [kind |-> "absent", n |-> 0]
Header(n) == [kind |-> "num", n |-> n]
Garbage == [kind |-> "garbage", n |-> 0]
\* a header given character by character
Text(s) == [kind |-> "text", n |-> 0, s |-> s]

\* the characters of s from the first that is not a space
TrimStart(s) ==
    LET k == CHOOSE i \in 0..Len(s) :
                 /\ \A j \in 1..i : s[j] = " "
                 /\ i < Len(s) => s[i + 1] # " "
    IN  SubSeq(s, k + 1, Len(s))

\* the longest prefix of s made of digits
DigitPrefix(s) ==
    LET k == CHOOSE i \in 0..Len(s) :
                 /\ \A j \in 1..i : s[j] \in Digits
                 /\ i < Len(s) => s[i + 1] \notin Digits
    IN  SubSeq(s, 1, k)

RECURSIVE Decimal(_)
Decimal(d) ==
    IF d = <<>> THEN 0
    ELSE 10 * Decimal(SubSeq(d, 1, Len(d) - 1)) + DigitVal(d[Len(d)])

\* parseInt(s, 10): leading white space, a sign, then digits; NaN without a
\* digit; what follows the digits is ignored
parseInt(s) ==
    LET t == TrimStart(s)
        signed == t # <<>> /\ t[1] \in {"+", "-"}
        d == DigitPrefix(IF signed THEN Tail(t) ELSE t)
    IN  IF d = <<>> THEN Undefined
        ELSE IF signed /\ t[1] = "-" THEN Num(0 - Decimal(d))
        ELSE Num(Decimal(d))

\* faulty variant: a response without the header counts as unbounded
SizeOfMissingUnbounded(header) ==
    CASE header.kind = "absent" -> Infinity
      [] header.kind = "num" -> Num(header.n)
      [] header.kind = "text" ->
            IF header.s = <<>> THEN Infinity ELSE parseInt(header.s)
      [] OTHER -> Undefined

SizeOf(header) ==
    CASE header.kind = "absent" -> Num(0)
      [] header.kind = "num" -> Num(header.n)
      [] header.kind = "text" ->
            IF header.s = <<>> THEN Num(0) ELSE parseInt(header.s)
      [] OTHER -> Undefined

\* faulty variant: the limit is read from a field the configuration does not have
OversizeUnknownLimit(size, config) == JsGT(size, Undefined)

\* if (size > SDK_CONFIG.maxResourceSize) return response
Oversize(size, config) == JsGT(size, config.maxResourceSize)

\* SDK_CONFIG.pages.some(...) || SDK_CONFIG.apis.some(...)
Some(list, url) == \E i \in 1..Len(list) : Includes(url, list[i])

\* faulty variant: the handler does not return for a URL that matches nothing
WatchedAlways(url, config) == TRUE

Watched(url, config) == Some(config.pages, url) \/ Some(config.apis, url)

---------------------------------------------------------------------------
(* State of one fetch event *)

\* settledAt, tracksBefore: the time at which, and the accesses counted
\* before, the handler called trackUsage; evaluated, usageRead: whether
\* isHighPriority was called, and the usage record it was called with
IdleReq ==
    [pc |-> "idle", method |-> "none", url |-> <<>>, path |-> "none",
     overLimit |-> FALSE,
     netQuality |-> "none", highPriority |-> FALSE,
     storedPriority |-> FALSE, admitted |-> FALSE, response |-> "none",
     settledAt |-> 0, tracksBefore |-> 0,
     evaluated |-> FALSE, usageRead |-> NoUsage]

Slots == DOMAIN reqs

\* a cache entry; overLimit records whether the response it was cloned from
\* declared a size above maxResourceSize when the handler checked it
NoEntry == [present |-> FALSE, overLimit |-> FALSE]
CacheEntry(overLimit) == [present |-> TRUE, overLimit |-> overLimit]

\* faulty variant: the response itself is handed to cache.put
PutOriginal(url, overLimit) ==
    [url |-> url, overLimit |-> overLimit, body |-> "original"]

\* cache.put(request.url, clone) with clone = response.clone()
Put(url, overLimit) == [url |-> url, overLimit |-> overLimit, body |-> "clone"]

Track(url) == [op |-> "track", url |-> url, r |-> 0]
Get(url, r) == [op |-> "get", url |-> url, r |-> r]

\* accesses of a URL the worker has counted or is about to count
Counted(url) ==
    usageStore[url].count
      + Cardinality({i \in 1..Len(idbQueue) : idbQueue[i] = Track(url)})

\* fetch events intercepted so far: tracked, waiting to be tracked, or in flight
Intercepted ==
    LET RECURSIVE Sum(_)
        Sum(S) == IF S = {} THEN 0
                  ELSE LET u == CHOOSE x \in S : TRUE
                       IN  usageStore[u].count + Sum(S \ {u})
    IN  Sum(DOMAIN usageStore)
        + Cardinality({i \in 1..Len(idbQueue) : idbQueue[i].op = "track"})
        + Cardinality({r \in Slots : reqs[r].pc = "network"})

---------------------------------------------------------------------------
(* Cache buckets and the life cycle of the worker *)

CACHE_NAME == "smart-offline-cache-v1"

\* buckets left by an earlier version and by another script of the origin
OtherNames == {"smart-offline-cache-v0", "app-shell"}

\* keys: the names caches.keys() resolved with; deleting: the caches.delete
\* calls issued and not yet settled
Parsed ==
    [phase |-> "parsed", claimed |-> FALSE, keysRead |-> FALSE, keys |-> {},
     deleting |-> {}]

\* a worker that was installed and activated on an origin with no other bucket
Activated ==
    [phase |-> "activated", claimed |-> TRUE, keysRead |-> TRUE,
     keys |-> {CACHE_NAME}, deleting |-> {}]

\* faulty variant: every bucket is deleted, the current one included
DoomedAll(names) == names

\* cacheNames.map((name) => { if (name !== CACHE_NAME) return caches.delete(name) })
Doomed(names) == {name \in names : name # CACHE_NAME}

---------------------------------------------------------------------------
(* Inputs of the worker *)

FetchUrls == {<<"a", "1", "2">>, <<"b">>, <<"c">>}
Methods == {"GET", "POST"}
Headers == {NoHeader, Header(1), Header(2), Garbage}
ConnTypes == {"none", "3g", "4g"}

\* payloads of the INIT_CONFIG message, as SmartOffline.init builds them
Payloads ==
    {Config(<<<<"a">>>>, <<<<"b">>>>, FALSE, Num(2), Num(0), max, nq, sig) :
        max \in {Infinity, Num(1)},
        nq \in {"auto", "fast", "slow"},
        sig \in {<<>>, <<Entry(<<"a">>, "low")>>,
                 <<Entry(<<"a">>, "normal"), Entry(<<"2">>, "high")>>}}

---------------------------------------------------------------------------
(* Events and callbacks of the worker *)

Init ==
    /\ worker \in Revisions
    /\ SDK_CONFIG = DefaultConfig
    /\ now = 0
    /\ usageStore = [u \in FetchUrls |-> NoUsage]
    /\ idbQueue = <<>>
    /\ cacheStore = [u \in FetchUrls |-> NoEntry]
    /\ cacheQueue = {}
    /\ reqs = [r \in 1..MaxReqs |-> IdleReq]
    /\ cacheNames = {CACHE_NAME}
    /\ lifecycle = Activated
    /\ call = NoCall

\* self.addEventListener("message", ...) with an INIT_CONFIG message
Message(payload) ==
    /\ SDK_CONFIG' = payload
    /\ UNCHANGED <<worker, now, usageStore, idbQueue, cacheStore, cacheQueue,
                   reqs, call, cacheNames, lifecycle>>

\* event.data of a message event: nothing, or an object with a type tag
\* and a payload
NoData == [present |-> FALSE, type |-> "", payload |-> DefaultConfig]
Data(type, payload) == [present |-> TRUE, type |-> type, payload |-> payload]

\* what a message that is not a configuration message may carry
OtherPayload ==
    Config(<< <<"c">> >>, <<>>, FALSE, Num(0), Num(0), Num(0), "slow", <<>>)

MessageData ==
    {NoData} \cup {Data("INIT_CONFIG", payload) : payload \in Payloads}
      \cup {Data(type, OtherPayload) : type \in {"CLEAR_CACHE", "GET_CONFIG"}}

\* faulty variant: the payload of every message with data is taken
MessageEventAnyTag(data) ==
    IF data.present THEN Message(data.payload) ELSE UNCHANGED vars

\* self.addEventListener("message", ...):
\* if (event.data && event.data.type === "INIT_CONFIG") ...
MessageEvent(data) ==
    IF data.present /\ data.type = "INIT_CONFIG"
    THEN Message(data.payload)
    ELSE UNCHANGED vars

\* the clock advances
Tick ==
    /\ now < MaxTime
    /\ now' = now + 1
    /\ UNCHANGED <<worker, SDK_CONFIG, usageStore, idbQueue, cacheStore,
                   cacheQueue, reqs, call, cacheNames, lifecycle>>

\* self.addEventListener("fetch", ...) up to event.respondWith(fetch(request)...)
FetchEvent(r, method, url) ==
    /\ reqs[r].pc \in {"idle", "responded", "passthrough"}
    /\ Intercepted < MaxFetches
    /\ reqs' = [reqs EXCEPT ![r] =
                 [IdleReq EXCEPT !.method = method, !.url = url,
                    !.pc = IF method = "GET" /\ Watched(url, SDK_CONFIG)
                           THEN "network" ELSE "passthrough"]]
    /\ UNCHANGED <<worker, SDK_CONFIG, now, usageStore, idbQueue, cacheStore,
                   cacheQueue, call, cacheNames, lifecycle>>

\* src/smart-offline-sw.js: fetch(request).then(async (response) => ...)
SdkNetworkSuccess(r, header, conn) ==
    LET url == reqs[r].url
        size == SizeOf(header)
        over == Oversize(size, SDK_CONFIG)
        netQuality == swGetEffectiveNetworkQuality(conn, SDK_CONFIG)
        high == swIsHighPriority(NoUsage, url, SDK_CONFIG, now)
        admit == ~over /\ ~(netQuality = "slow" /\ ~high)
    IN  /\ worker = "sdk"
        /\ reqs[r].pc = "network"
        /\ idbQueue' = Append(idbQueue, Track(url))
        /\ cacheQueue' = IF admit
                         THEN cacheQueue \cup
                              {Put(url, JsGT(size, SDK_CONFIG.maxResourceSize))}
                         ELSE cacheQueue
        /\ reqs' = [reqs EXCEPT ![r] =
                     [@ EXCEPT !.pc = "responded", !.path = "success",
                        !.overLimit = JsGT(size, SDK_CONFIG.maxResourceSize),
                        !.netQuality = IF over THEN "none" ELSE netQuality,
                        !.highPriority = ~over /\ netQuality = "slow" /\ high,
                        !.storedPriority =
                            swIsHighPriority(usageStore[url], url, SDK_CONFIG, now),
                        !.settledAt = now, !.tracksBefore = Counted(url),
                        !.evaluated = ~over /\ netQuality = "slow",
                        !.usageRead = NoUsage,
                        !.admitted = admit, !.response = "network"]]
        /\ UNCHANGED <<worker, SDK_CONFIG, now, usageStore, cacheStore, call,
                       cacheNames, lifecycle>>

\* citizen-portal-demo/public/smart-offline-sw.js: the try block up to
\* await getUsage(request.url)
PortalNetworkSuccess(r, header) ==
    LET url == reqs[r].url
        size == SizeOf(header)
        over == Oversize(size, SDK_CONFIG)
    IN  /\ worker = "portal"
        /\ reqs[r].pc = "network"
        /\ idbQueue' = IF over THEN Append(idbQueue, Track(url))
                       ELSE idbQueue \o <<Track(url), Get(url, r)>>
        /\ reqs' = [reqs EXCEPT ![r] =
                     [@ EXCEPT !.pc = IF over THEN "responded" ELSE "awaitUsage",
                        !.path = "success",
                        !.overLimit = JsGT(size, SDK_CONFIG.maxResourceSize),
                        !.settledAt = now, !.tracksBefore = Counted(url),
                        !.response = IF over THEN "network" ELSE "none"]]
        /\ UNCHANGED <<worker, SDK_CONFIG, now, usageStore, cacheStore,
                       cacheQueue, call, cacheNames, lifecycle>>

\* faulty variant: the failure handler looks the usage up without recording
\* the access
NetworkFailureUntracked(r) ==
    LET url == reqs[r].url
    IN  /\ reqs[r].pc = "network"
        /\ idbQueue' = Append(idbQueue, Get(url, r))
        /\ reqs' = [reqs EXCEPT ![r] =
                     [@ EXCEPT !.pc = "awaitUsageFail", !.path = "failure",
                        !.settledAt = now, !.tracksBefore = Counted(url)]]
        /\ UNCHANGED <<worker, SDK_CONFIG, now, usageStore, cacheStore,
                       cacheQueue, call, cacheNames, lifecycle>>

\* faulty variant: the failure handler stores what it has under the URL
NetworkFailureCaching(r) ==
    LET url == reqs[r].url
    IN  /\ reqs[r].pc = "network"
        /\ idbQueue' = idbQueue \o <<Track(url), Get(url, r)>>
        /\ cacheQueue' = cacheQueue \cup {Put(url, FALSE)}
        /\ reqs' = [reqs EXCEPT ![r] =
                     [@ EXCEPT !.pc = "awaitUsageFail", !.path = "failure",
                        !.settledAt = now, !.tracksBefore = Counted(url)]]
        /\ UNCHANGED <<worker, SDK_CONFIG, now, usageStore, cacheStore,
                       call, cacheNames, lifecycle>>

\* .catch(() => ...) / catch (error): trackUsage, then getUsage(...).then
NetworkFailure(r) ==
    LET url == reqs[r].url
    IN  /\ reqs[r].pc = "network"
        /\ idbQueue' = idbQueue \o <<Track(url), Get(url, r)>>
        /\ reqs' = [reqs EXCEPT ![r] =
                     [@ EXCEPT !.pc = "awaitUsageFail", !.path = "failure",
                        !.settledAt = now, !.tracksBefore = Counted(url)]]
        /\ UNCHANGED <<worker, SDK_CONFIG, now, usageStore, cacheStore,
                       cacheQueue, call, cacheNames, lifecycle>>

\* faulty variant: the record is put as it was read, the zero record for a
\* new URL, before the count and the time are set
IdbTrackPutsAsRead ==
    /\ idbQueue # <<>>
    /\ idbQueue[1].op = "track"
    /\ LET url == idbQueue[1].url
       IN  usageStore' = [usageStore EXCEPT ![url] =
                            Usage(usageStore[url].count,
                                  usageStore[url].lastAccessed)]
    /\ idbQueue' = Tail(idbQueue)
    /\ UNCHANGED <<worker, SDK_CONFIG, now, cacheStore, cacheQueue, reqs, call,
                       cacheNames, lifecycle>>

\* trackUsage: the readwrite transaction (get, count += 1, put); it starts
\* when every transaction created before it has finished
IdbTrack ==
    /\ idbQueue # <<>>
    /\ idbQueue[1].op = "track"
    /\ LET url == idbQueue[1].url
       IN  usageStore' = [usageStore EXCEPT ![url] =
                            Usage(usageStore[url].count + 1, now)]
    /\ idbQueue' = Tail(idbQueue)
    /\ UNCHANGED <<worker, SDK_CONFIG, now, cacheStore, cacheQueue, reqs, call,
                       cacheNames, lifecycle>>

\* a readonly transaction may finish once no readwrite transaction created
\* before it is pending
Ready(i) ==
    /\ i \in 1..Len(idbQueue)
    /\ idbQueue[i].op = "get"
    /\ \A j \in 1..(i - 1) : idbQueue[j].op = "get"

Without(q, i) == SubSeq(q, 1, i - 1) \o SubSeq(q, i + 1, Len(q))

\* portal revision: getUsage resolves and the try block runs to its end
PortalDecide(i, conn) ==
    /\ Ready(i)
    /\ LET r == idbQueue[i].r
           url == idbQueue[i].url
           usage == usageStore[url]
           shouldCache == swIsHighPriority(usage, url, SDK_CONFIG, now)
           netQuality == swGetEffectiveNetworkQuality(conn, SDK_CONFIG)
           admit == ~(netQuality = "slow" /\ ~shouldCache) /\ shouldCache
       IN  /\ reqs[r].pc = "awaitUsage"
           /\ cacheQueue' = IF admit
                            THEN cacheQueue \cup {Put(url, reqs[r].overLimit)}
                            ELSE cacheQueue
           /\ reqs' = [reqs EXCEPT ![r] =
                        [@ EXCEPT !.pc = "responded", !.netQuality = netQuality,
                           !.highPriority = shouldCache,
                           !.storedPriority = shouldCache,
                           !.evaluated = TRUE, !.usageRead = usage,
                           !.admitted = admit, !.response = "network"]]
    /\ idbQueue' = Without(idbQueue, i)
    /\ UNCHANGED <<worker, SDK_CONFIG, now, usageStore, cacheStore, call,
                       cacheNames, lifecycle>>

\* failure path: getUsage resolves, isHighPriority is evaluated for the
\* log, caches.match(request.url) is issued
FailureLookup(i) ==
    /\ Ready(i)
    /\ LET r == idbQueue[i].r
           url == idbQueue[i].url
           highPriority == swIsHighPriority(usageStore[url], url, SDK_CONFIG, now)
       IN  /\ reqs[r].pc = "awaitUsageFail"
           /\ reqs' = [reqs EXCEPT ![r] =
                        [@ EXCEPT !.pc = "awaitMatch",
                           !.highPriority = highPriority,
                           !.storedPriority = highPriority,
                           !.evaluated = TRUE,
                           !.usageRead = usageStore[url]]]
    /\ idbQueue' = Without(idbQueue, i)
    /\ UNCHANGED <<worker, SDK_CONFIG, now, usageStore, cacheStore,
                   cacheQueue, call, cacheNames, lifecycle>>

\* faulty variant: the cached entry is returned only for a high priority URL
CacheMatchIfHighPriority(r) ==
    /\ reqs[r].pc = "awaitMatch"
    /\ LET hit == cacheStore[reqs[r].url].present /\ reqs[r].highPriority
           miss == IF worker = "sdk" THEN "undefined" ELSE "503"
       IN  reqs' = [reqs EXCEPT ![r] =
                     [@ EXCEPT !.pc = "responded",
                        !.response = IF hit THEN "cached" ELSE miss]]
    /\ UNCHANGED <<worker, SDK_CONFIG, now, usageStore, idbQueue, cacheStore,
                   cacheQueue, call, cacheNames, lifecycle>>

\* caches.match(request.url) resolves. sdk: its result is the response;
\* portal: the cached response, or new Response(..., { status: 503 })
CacheMatch(r) ==
    /\ reqs[r].pc = "awaitMatch"
    /\ LET hit == cacheStore[reqs[r].url].present
           miss == IF worker = "sdk" THEN "undefined" ELSE "503"
       IN  reqs' = [reqs EXCEPT ![r] =
                     [@ EXCEPT !.pc = "responded",
                        !.response = IF hit THEN "cached" ELSE miss]]
    /\ UNCHANGED <<worker, SDK_CONFIG, now, usageStore, idbQueue, cacheStore,
                   cacheQueue, call, cacheNames, lifecycle>>

\* caches.open(CACHE_NAME).then((cache) => cache.put(request.url, clone))
CachePut(w) ==
    /\ w \in cacheQueue
    /\ cacheStore' = [cacheStore EXCEPT ![w.url] = CacheEntry(w.overLimit)]
    /\ cacheQueue' = cacheQueue \ {w}
    /\ UNCHANGED <<worker, SDK_CONFIG, now, usageStore, idbQueue, reqs, call,
                       cacheNames, lifecycle>>

\* faulty variant: the handler waits for the cache write, and a write that
\* fails rejects the response promise
CachePutFailsRejecting(w) ==
    /\ w \in cacheQueue
    /\ cacheQueue' = cacheQueue \ {w}
    /\ reqs' = [r \in Slots |->
                 IF reqs[r].url = w.url /\ reqs[r].pc = "responded"
                 THEN [reqs[r] EXCEPT !.response = "undefined"]
                 ELSE reqs[r]]
    /\ UNCHANGED <<worker, SDK_CONFIG, now, usageStore, idbQueue, cacheStore,
                   call, cacheNames, lifecycle>>

\* caches.open or cache.put rejects: the promise is not returned to the
\* handler, nothing is stored and nothing else happens
CachePutFails(w) ==
    /\ w \in cacheQueue
    /\ cacheQueue' = cacheQueue \ {w}
    /\ UNCHANGED <<worker, SDK_CONFIG, now, usageStore, idbQueue, cacheStore,
                   reqs, call, cacheNames, lifecycle>>

Next ==
    \/ \E data \in MessageData : MessageEvent(data)
    \/ Tick
    \/ \E r \in Slots, method \in Methods, url \in FetchUrls :
          FetchEvent(r, method, url)
    \/ \E r \in Slots, header \in Headers, conn \in ConnTypes :
          SdkNetworkSuccess(r, header, conn)
    \/ \E r \in Slots, header \in Headers : PortalNetworkSuccess(r, header)
    \/ \E r \in Slots : NetworkFailure(r)
    \/ IdbTrack
    \/ \E i \in 1..Len(idbQueue), conn \in ConnTypes : PortalDecide(i, conn)
    \/ \E i \in 1..Len(idbQueue) : FailureLookup(i)
    \/ \E r \in Slots : CacheMatch(r)
    \/ \E w \in cacheQueue : CachePut(w)
    \/ \E w \in cacheQueue : CachePutFails(w)

Spec == Init /\ [][Next]_vars

---------------------------------------------------------------------------
(* Install and activate events *)

\* self.addEventListener("install", ...): skipWaiting(), caches.open issued
Install ==
    /\ lifecycle.phase = "parsed"
    /\ lifecycle' = [lifecycle EXCEPT !.phase = "installing"]
    /\ UNCHANGED <<worker, SDK_CONFIG, now, usageStore, idbQueue, cacheStore,
                   cacheQueue, reqs, cacheNames, call>>

\* caches.open(CACHE_NAME) resolves, creating the bucket if it is missing;
\* the promise given to event.waitUntil is settled
InstallOpened ==
    /\ lifecycle.phase = "installing"
    /\ cacheNames' = cacheNames \cup {CACHE_NAME}
    /\ lifecycle' = [lifecycle EXCEPT !.phase = "installed"]
    /\ UNCHANGED <<worker, SDK_CONFIG, now, usageStore, idbQueue, cacheStore,
                   cacheQueue, reqs, call>>

\* self.addEventListener("activate", ...): clients.claim() and caches.keys()
\* are issued
Activate ==
    /\ lifecycle.phase = "installed"
    /\ lifecycle' = [lifecycle EXCEPT !.phase = "activating"]
    /\ UNCHANGED <<worker, SDK_CONFIG, now, usageStore, idbQueue, cacheStore,
                   cacheQueue, reqs, cacheNames, call>>

\* self.clients.claim() resolves
ActivateClaimed ==
    /\ lifecycle.phase = "activating"
    /\ ~lifecycle.claimed
    /\ lifecycle' = [lifecycle EXCEPT !.claimed = TRUE]
    /\ UNCHANGED <<worker, SDK_CONFIG, now, usageStore, idbQueue, cacheStore,
                   cacheQueue, reqs, cacheNames, call>>

\* caches.keys() resolves; the .then callback issues the deletions
ActivateKeys ==
    /\ lifecycle.phase = "activating"
    /\ ~lifecycle.keysRead
    /\ lifecycle' = [lifecycle EXCEPT !.keysRead = TRUE, !.keys = cacheNames,
                       !.deleting = Doomed(cacheNames)]
    /\ UNCHANGED <<worker, SDK_CONFIG, now, usageStore, idbQueue, cacheStore,
                   cacheQueue, reqs, cacheNames, call>>

\* faulty variant: deleting a bucket also clears the usage store
ActivateDeletedWipingUsage(name) ==
    /\ lifecycle.phase = "activating"
    /\ name \in lifecycle.deleting
    /\ cacheNames' = cacheNames \ {name}
    /\ cacheStore' = IF name = CACHE_NAME
                      THEN [u \in FetchUrls |-> NoEntry] ELSE cacheStore
    /\ usageStore' = [u \in FetchUrls |-> NoUsage]
    /\ lifecycle' = [lifecycle EXCEPT !.deleting = @ \ {name}]
    /\ UNCHANGED <<worker, SDK_CONFIG, now, idbQueue, cacheQueue, reqs, call>>

\* caches.delete(name) resolves: the bucket and its entries are gone
ActivateDeleted(name) ==
    /\ lifecycle.phase = "activating"
    /\ name \in lifecycle.deleting
    /\ cacheNames' = cacheNames \ {name}
    /\ cacheStore' = IF name = CACHE_NAME
                      THEN [u \in FetchUrls |-> NoEntry] ELSE cacheStore
    /\ lifecycle' = [lifecycle EXCEPT !.deleting = @ \ {name}]
    /\ UNCHANGED <<worker, SDK_CONFIG, now, usageStore, idbQueue, cacheQueue,
                   reqs, call>>

\* both promises of Promise.all are settled: the activate event completes
ActivateDone ==
    /\ lifecycle.phase = "activating"
    /\ lifecycle.claimed
    /\ lifecycle.keysRead
    /\ lifecycle.deleting = {}
    /\ lifecycle' = [lifecycle EXCEPT !.phase = "activated"]
    /\ UNCHANGED <<worker, SDK_CONFIG, now, usageStore, idbQueue, cacheStore,
                   cacheQueue, reqs, cacheNames, call>>

\* the script has been parsed on an origin that holds the bucket of an
\* earlier version and a usage record that version wrote
InitEvents ==
    /\ worker \in Revisions
    /\ SDK_CONFIG = DefaultConfig
    /\ now = 0
    /\ usageStore = [u \in FetchUrls |->
                       IF u = <<"b">> THEN Usage(1, 0) ELSE NoUsage]
    /\ idbQueue = <<>>
    /\ cacheNames = {"smart-offline-cache-v0"}
    /\ cacheStore = [u \in FetchUrls |-> NoEntry]
    /\ cacheQueue = {}
    /\ reqs = [r \in 1..MaxReqs |-> IdleReq]
    /\ lifecycle = Parsed
    /\ call = NoCall

\* the worker from its first event on: install and activate, then messages
\* from the page it controls and the fetch events of that page
NextEvents ==
    \/ Install
    \/ InstallOpened
    \/ Activate
    \/ ActivateClaimed
    \/ ActivateKeys
    \/ \E name \in lifecycle.deleting : ActivateDeleted(name)
    \/ ActivateDone
    \/ /\ lifecycle.phase = "activating"
       /\ lifecycle.claimed
       /\ \E data \in MessageData : MessageEvent(data)
    \/ /\ lifecycle.phase = "activated"
       /\ Next

SpecEvents == InitEvents /\ [][NextEvents]_vars

\* usage records and cache entries an earlier worker left behind
StoredUsage == {NoUsage} \cup {Usage(c, t) : c \in 1..2, t \in 0..MaxTime}
StoredEntries == {NoEntry, CacheEntry(FALSE)}

\* a new version of the script has been fetched and parsed; the stores hold
\* what earlier versions wrote
InitLifecycle ==
    /\ worker \in Revisions
    /\ SDK_CONFIG = DefaultConfig
    /\ now = MaxTime
    /\ usageStore \in [FetchUrls -> StoredUsage]
    /\ idbQueue = <<>>
    /\ cacheNames \in SUBSET (OtherNames \cup {CACHE_NAME})
    /\ cacheStore \in [FetchUrls -> StoredEntries]
    /\ (CACHE_NAME \notin cacheNames
          => cacheStore = [u \in FetchUrls |-> NoEntry])
    /\ cacheQueue = {}
    /\ reqs = [r \in 1..MaxReqs |-> IdleReq]
    /\ lifecycle = Parsed
    /\ call = NoCall

NextLifecycle ==
    \/ Install
    \/ InstallOpened
    \/ Activate
    \/ ActivateClaimed
    \/ ActivateKeys
    \/ \E name \in lifecycle.deleting : ActivateDeleted(name)
    \/ ActivateDone

SpecLifecycle == InitLifecycle /\ [][NextLifecycle]_vars

---------------------------------------------------------------------------
(* The priority utilities applied to drawn arguments *)

InitPriority ==
    /\ worker = "sdk"
    /\ SDK_CONFIG = DefaultConfig
    /\ now = 0
    /\ usageStore = [u \in FetchUrls |-> NoUsage]
    /\ idbQueue = <<>>
    /\ cacheStore = [u \in FetchUrls |-> NoEntry]
    /\ cacheQueue = {}
    /\ reqs = [r \in 1..MaxReqs |-> IdleReq]
    /\ cacheNames = {CACHE_NAME}
    /\ lifecycle = Activated
    /\ \E f \in {"priority.isHighPriority", "worker.isHighPriority"},
          u \in UsageArgs, url \in Urls, cfg \in UtilConfigs, t \in Times :
          \* a record's lastAccessed was read from the clock before the call
          /\ u.lastAccessed <= t
          /\ call = [fn |-> f, usage |-> u, url |-> url, config |-> cfg,
                     t |-> t, done |-> FALSE, value |-> FALSE]

NextPriority == CallPriority \/ CallWorkerPriority

SpecPriority == InitPriority /\ [][NextPriority]_vars

---------------------------------------------------------------------------
(* Size and network utilities of priority.cjs *)

\* !x for a number or an absent value: undefined, null, NaN and 0 are falsy
Falsy(x) == x.kind = "undef" \/ (x.kind = "num" /\ x.n = 0)

\* faulty variant: a size equal to the limit is skipped too
shouldSkipBySizeInclusive(size, config) ==
    LET max == Coalesce(config.maxResourceSize, Infinity)
    IN  IF Falsy(size) THEN FALSE ELSE JsGE(size, max)

\* config is the object passed by the caller, { maxResourceSize: ... } or {}
shouldSkipBySize(size, config) ==
    LET max == Coalesce(config.maxResourceSize, Infinity)
    IN  IF Falsy(size) THEN FALSE ELSE JsGT(size, max)

slowTypes == {"slow-2g", "2g", "3g"}

\* faulty variant: detection comes before the developer's override
getEffectiveNetworkQualityDetectFirst(effectiveType, configNetwork) ==
    IF effectiveType \in slowTypes THEN "slow"
    ELSE IF configNetwork \notin {"undefined", "auto"} THEN configNetwork
    ELSE "fast"

\* faulty variant: an absent connection type counts as slow
getEffectiveNetworkQualityAbsentSlow(effectiveType, configNetwork) ==
    LET mode == IF configNetwork = "undefined" THEN "auto" ELSE configNetwork
    IN  IF mode # "auto" THEN mode
        ELSE IF effectiveType \in {"none", ""} THEN "slow"
        ELSE IF effectiveType \in slowTypes THEN "slow"
        ELSE "fast"

\* effectiveType is "none" for null / undefined; configNetwork is
\* "undefined" when the argument is left out (default parameter 'auto')
getEffectiveNetworkQuality(effectiveType, configNetwork) ==
    LET mode == IF configNetwork = "undefined" THEN "auto" ELSE configNetwork
    IN  IF mode # "auto" THEN mode
        ELSE IF effectiveType \in {"none", ""} THEN "fast"
        ELSE IF effectiveType \in slowTypes THEN "slow"
        ELSE "fast"

---------------------------------------------------------------------------
(* The size and network utilities applied to drawn arguments *)

MaxSize == 2         \* size limits drawn: 0..MaxSize; sizes: -1..MaxSize + 1

SizeArgs == {Undefined, Infinity} \cup {Num(n) : n \in (0 - 1)..(MaxSize + 1)}
LimitArgs == {Undefined, Infinity} \cup {Num(n) : n \in 0..MaxSize}

EffectiveTypes == {"none", "", "slow-2g", "2g", "3g", "4g", "5g"}
NetworkModes == {"auto", "fast", "slow"}

CallShouldSkipBySize ==
    /\ call.fn = "priority.shouldSkipBySize"
    /\ ~call.done
    /\ call' = [call EXCEPT !.done = TRUE,
                 !.value = shouldSkipBySize(call.size, call.config)]
    /\ UNCHANGED swVars

\* the headers the size check is given: none, numerals, and text with and
\* without a leading number
HeaderArgs ==
    {NoHeader, Garbage} \cup {Header(n) : n \in 0..(MaxSize + 1)}
      \cup {Text(s) : s \in {<<>>, <<"x">>, <<"x", "3">>, <<"3", "x">>,
                              <<" ", "2">>, <<"-", "1">>, <<"-">>, <<"1", "0">>}}

\* const size = contentLength ? parseInt(contentLength, 10) : 0;
\* if (size > SDK_CONFIG.maxResourceSize) return response
CallSizeCheck ==
    /\ call.fn = "worker.sizeCheck"
    /\ ~call.done
    /\ call' = [call EXCEPT !.done = TRUE,
                 !.size = SizeOf(call.header),
                 !.value = Oversize(SizeOf(call.header), SDK_CONFIG)]
    /\ UNCHANGED swVars

CallNetworkQuality ==
    /\ call.fn = "priority.getEffectiveNetworkQuality"
    /\ ~call.done
    /\ call' = [call EXCEPT !.done = TRUE,
                 !.value = getEffectiveNetworkQuality(call.effectiveType,
                                                      call.configNetwork)]
    /\ UNCHANGED swVars

\* the worker's getEffectiveNetworkQuality() reads SDK_CONFIG and navigator
CallWorkerNetworkQuality ==
    /\ call.fn = "worker.getEffectiveNetworkQuality"
    /\ ~call.done
    /\ call' = [call EXCEPT !.done = TRUE,
                 !.value = swGetEffectiveNetworkQuality(call.effectiveType,
                                                        SDK_CONFIG)]
    /\ UNCHANGED swVars

---------------------------------------------------------------------------
(* Configuration merge: buildConfig of config.js, init of index.js.        *)
(* The argument is the object as the function reads it: a property that is *)
(* left out reads as undefined.                                            *)

Bool(b) == [kind |-> "bool", v |-> b]
Str(s) == [kind |-> "string", v |-> s]
Arr(l) == [kind |-> "array", v |-> l]
Obj(m) == [kind |-> "object", v |-> m]

\* the left operand of x || d is kept
Truthy(x) ==
    CASE x.kind = "undef" -> FALSE
      [] x.kind = "bool" -> x.v
      [] x.kind = "string" -> x.v # ""
      [] x.kind = "num" -> x.n # 0
      [] OTHER -> TRUE

\* x || d and x ?? d for a wrapped left operand, unwrapped
OrElse(x, d) == IF Truthy(x) THEN x.v ELSE d
Unwrapped(x, d) == IF x.kind = "undef" THEN d ELSE x.v

Input(pages, apis, debug, freq, rec, max, nq, sig) ==
    [pages |-> pages, apis |-> apis, debug |-> debug,
     frequencyThreshold |-> freq, recencyThreshold |-> rec,
     maxResourceSize |-> max, networkQuality |-> nq, significance |-> sig]

\* faulty variant: the fields are copied, nothing is defaulted
buildConfigNoDefaults(input) ==
    Config(OrElse(input.pages, <<>>),
           OrElse(input.apis, <<>>),
           OrElse(input.debug, FALSE),
           input.frequencyThreshold,
           input.recencyThreshold,
           input.maxResourceSize,
           Unwrapped(input.networkQuality, "undefined"),
           OrElse(input.significance, <<>>))

\* faulty variant: the numeric fields are merged with || as well
buildConfigFalsyDefaults(input) ==
    Config(OrElse(input.pages, <<>>),
           OrElse(input.apis, <<>>),
           OrElse(input.debug, FALSE),
           IF Falsy(input.frequencyThreshold)
               THEN Num(DEFAULT_FREQUENCY) ELSE input.frequencyThreshold,
           IF Falsy(input.recencyThreshold)
               THEN Num(DEFAULT_RECENCY) ELSE input.recencyThreshold,
           IF Falsy(input.maxResourceSize)
               THEN Infinity ELSE input.maxResourceSize,
           Unwrapped(input.networkQuality, "auto"),
           OrElse(input.significance, <<>>))

buildConfig(input) ==
    Config(OrElse(input.pages, <<>>),
           OrElse(input.apis, <<>>),
           OrElse(input.debug, FALSE),
           Coalesce(input.frequencyThreshold, Num(DEFAULT_FREQUENCY)),
           Coalesce(input.recencyThreshold, Num(DEFAULT_RECENCY)),
           Coalesce(input.maxResourceSize, Infinity),
           Unwrapped(input.networkQuality, "auto"),
           OrElse(input.significance, <<>>))

\* const sdkConfig = { ... } in init(config) of index.js
sdkConfig(config) ==
    Config(OrElse(config.pages, <<>>),
           OrElse(config.apis, <<>>),
           OrElse(config.debug, FALSE),
           Coalesce(config.frequencyThreshold, Num(DEFAULT_FREQUENCY)),
           Coalesce(config.recencyThreshold, Num(DEFAULT_RECENCY)),
           Coalesce(config.maxResourceSize, Infinity),
           Unwrapped(config.networkQuality, "auto"),
           Unwrapped(config.significance, <<>>))

PagesArgs == {Undefined, Arr(<<>>), Arr(<< <<"a">> >>)}
ApisArgs == {Undefined, Arr(<< <<"b">> >>)}
DebugArgs == {Undefined, Bool(FALSE), Bool(TRUE)}
ThresholdArgs == {Undefined, Num(0), Num(2)}
ModeArgs == {Undefined} \cup {Str(m) : m \in NetworkModes}
SignificanceArgs == {Undefined, Obj(<<>>), Obj(<<Entry(<<"a">>, "high")>>)}

\* the fields init(config) of src/unnamed/part_010 leaves out of the payload
OptionalFields ==
    {"frequencyThreshold", "recencyThreshold", "maxResourceSize",
     "networkQuality", "significance"}

\* a payload with the watch lists, debug and the optional fields that are
\* not omitted. A property the payload lacks reads as undefined; for...in
\* over an undefined significance visits nothing, as over {}
PartialPayload(omitted) ==
    Config(<< <<"a">> >>, << <<"b">> >>, FALSE,
           IF "frequencyThreshold" \in omitted THEN Undefined ELSE Num(2),
           IF "recencyThreshold" \in omitted THEN Undefined ELSE Num(0),
           IF "maxResourceSize" \in omitted THEN Undefined ELSE Num(1),
           IF "networkQuality" \in omitted THEN "undefined" ELSE "fast",
           IF "significance" \in omitted THEN <<>>
           ELSE <<Entry(<<"2">>, "normal")>>)

\* the same payload with the documented default in each omitted field
WithDefaults(omitted) ==
    Config(<< <<"a">> >>, << <<"b">> >>, FALSE,
           IF "frequencyThreshold" \in omitted
               THEN Num(DEFAULT_FREQUENCY) ELSE Num(2),
           IF "recencyThreshold" \in omitted
               THEN Num(DEFAULT_RECENCY) ELSE Num(0),
           IF "maxResourceSize" \in omitted THEN Infinity ELSE Num(1),
           IF "networkQuality" \in omitted THEN "auto" ELSE "fast",
           IF "significance" \in omitted THEN <<>>
           ELSE <<Entry(<<"2">>, "normal")>>)

\* what the fetch handler decides for a response under a configuration:
\* the size check, the slow-network gate and the priority
Decisions(config, usage, url, t, header, conn) ==
    [watched |-> Watched(url, config),
     over |-> Oversize(SizeOf(header), config),
     slow |-> swGetEffectiveNetworkQuality(conn, config) = "slow",
     high |-> swIsHighPriority(usage, url, config, t)]

\* the INIT_CONFIG message of the harness arrives
CallMessage ==
    /\ call.fn = "worker.decisions"
    /\ SDK_CONFIG = DefaultConfig
    /\ Message(PartialPayload(call.omitted))

\* the decisions of the fetch handler after the message
CallDecisions ==
    /\ call.fn = "worker.decisions"
    /\ SDK_CONFIG = PartialPayload(call.omitted)
    /\ ~call.done
    /\ call' = [call EXCEPT !.done = TRUE,
                 !.value = Decisions(SDK_CONFIG, call.usage, call.url, call.t,
                                     call.header, call.conn)]
    /\ UNCHANGED swVars

CallBuildConfig ==
    /\ call.fn = "config.buildConfig"
    /\ ~call.done
    /\ call' = [call EXCEPT !.done = TRUE, !.value = buildConfig(call.input)]
    /\ UNCHANGED swVars

CallInit ==
    /\ call.fn = "index.init"
    /\ ~call.done
    /\ call' = [call EXCEPT !.done = TRUE, !.value = sdkConfig(call.input)]
    /\ UNCHANGED swVars

InitUtils ==
    /\ worker = "sdk"
    /\ now = 0
    /\ usageStore = [u \in FetchUrls |-> NoUsage]
    /\ idbQueue = <<>>
    /\ cacheStore = [u \in FetchUrls |-> NoEntry]
    /\ cacheQueue = {}
    /\ reqs = [r \in 1..MaxReqs |-> IdleReq]
    /\ cacheNames = {CACHE_NAME}
    /\ lifecycle = Activated
    /\ \/ /\ SDK_CONFIG = DefaultConfig
          /\ \E size \in SizeArgs, max \in LimitArgs :
                call = [fn |-> "priority.shouldSkipBySize", size |-> size,
                        config |-> [maxResourceSize |-> max],
                        done |-> FALSE, value |-> FALSE]
       \/ \E header \in HeaderArgs, max \in LimitArgs \ {Undefined} :
             /\ SDK_CONFIG = [DefaultConfig EXCEPT !.maxResourceSize = max]
             /\ call = [fn |-> "worker.sizeCheck", header |-> header,
                        done |-> FALSE, size |-> Undefined, value |-> FALSE]
       \/ /\ SDK_CONFIG = DefaultConfig
          /\ \E type \in EffectiveTypes, mode \in NetworkModes \cup {"undefined"} :
                call = [fn |-> "priority.getEffectiveNetworkQuality",
                        effectiveType |-> type, configNetwork |-> mode,
                        done |-> FALSE, value |-> "none"]
       \/ \E type \in EffectiveTypes, mode \in NetworkModes :
             /\ SDK_CONFIG = [DefaultConfig EXCEPT !.networkQuality = mode]
             /\ call = [fn |-> "worker.getEffectiveNetworkQuality",
                        effectiveType |-> type, configNetwork |-> mode,
                        done |-> FALSE, value |-> "none"]
       \/ /\ SDK_CONFIG = DefaultConfig
          /\ \E f \in {"config.buildConfig", "index.init"},
                pages \in PagesArgs, apis \in ApisArgs, debug \in DebugArgs,
                freq \in ThresholdArgs, rec \in ThresholdArgs,
                max \in LimitArgs, nq \in ModeArgs, sig \in SignificanceArgs :
                call = [fn |-> f,
                        input |-> Input(pages, apis, debug, freq, rec, max,
                                        nq, sig),
                        done |-> FALSE, value |-> DefaultConfig]
       \/ /\ SDK_CONFIG = DefaultConfig
          /\ \E omitted \in SUBSET OptionalFields,
                usage \in {NoUsage, Usage(1, 0), Usage(DEFAULT_FREQUENCY, 0)},
                t \in Times, header \in {NoHeader, Header(2)},
                conn \in ConnTypes :
                call = [fn |-> "worker.decisions", omitted |-> omitted,
                        usage |-> usage, url |-> <<"a", "1", "2">>, t |-> t,
                        header |-> header, conn |-> conn, done |-> FALSE,
                        value |-> Decisions(DefaultConfig, NoUsage, <<>>, 0,
                                            NoHeader, "none")]

NextUtils ==
    \/ CallShouldSkipBySize
    \/ CallSizeCheck
    \/ CallNetworkQuality
    \/ CallWorkerNetworkQuality
    \/ CallBuildConfig
    \/ CallInit
    \/ CallMessage
    \/ CallDecisions

SpecUtils == InitUtils /\ [][NextUtils]_vars

---------------------------------------------------------------------------
(* trackUsage called sequentially: each call runs to the end of its        *)
(* transaction before the next one starts. The steps are those of the      *)
(* worker's trackUsage; trackUsage of usageTracker.js has the same steps.  *)

MaxTracks == 3       \* calls of trackUsage in one run

\* faulty variant: the stored record is ignored, every call starts from zero
TrackedFromZero(existing, t) == Usage(1, t)

\* faulty variant: the count is incremented in the get callback and again
\* before the put
TrackedTwice(existing, t) ==
    Usage((IF existing.present THEN existing.count ELSE 0) + 2, t)

\* const data = getReq.result || { url, count: 0, lastAccessed: 0 };
\* data.count += 1; data.lastAccessed = Date.now()
Tracked(existing, t) ==
    Usage((IF existing.present THEN existing.count ELSE 0) + 1, t)

TrackCalls ==
    LET RECURSIVE Sum(_)
        Sum(S) == IF S = {} THEN 0
                  ELSE LET u == CHOOSE x \in S : TRUE
                       IN  call.calls[u] + Sum(S \ {u})
    IN  Sum(DOMAIN call.calls)

\* trackUsage(url): indexedDB.open is issued
TrackUsage(url) ==
    /\ call.fn = "trackUsage"
    /\ call.pc \in {"ready", "done"}
    /\ TrackCalls < MaxTracks
    /\ call' = [call EXCEPT !.pc = "open", !.url = url, !.started = now,
                 !.calls[url] = @ + 1]
    /\ UNCHANGED swVars

\* request.onsuccess: the readwrite transaction is created, store.get issued
TrackOpened ==
    /\ call.fn = "trackUsage"
    /\ call.pc = "open"
    /\ call' = [call EXCEPT !.pc = "get"]
    /\ UNCHANGED swVars

\* getReq.onsuccess: the record is updated and store.put issued
TrackRead ==
    /\ call.fn = "trackUsage"
    /\ call.pc = "get"
    /\ call' = [call EXCEPT !.pc = "put",
                 !.data = Tracked(usageStore[call.url], now)]
    /\ UNCHANGED swVars

\* the put is done and the transaction commits
TrackWritten ==
    /\ call.fn = "trackUsage"
    /\ call.pc = "put"
    /\ usageStore' = [usageStore EXCEPT ![call.url] = call.data]
    /\ call' = [call EXCEPT !.pc = "done",
                 !.window[call.url] = [from |-> call.started, to |-> now]]
    /\ UNCHANGED <<worker, SDK_CONFIG, now, idbQueue, cacheStore, cacheQueue,
                   reqs, cacheNames, lifecycle>>

\* calls[u]: calls of trackUsage(u) so far; window[u]: the clock at the start
\* and at the end of the last finished call of trackUsage(u)
InitTrack ==
    /\ worker \in Revisions
    /\ SDK_CONFIG = DefaultConfig
    /\ now = 0
    /\ usageStore = [u \in FetchUrls |-> NoUsage]
    /\ idbQueue = <<>>
    /\ cacheStore = [u \in FetchUrls |-> NoEntry]
    /\ cacheQueue = {}
    /\ reqs = [r \in 1..MaxReqs |-> IdleReq]
    /\ cacheNames = {CACHE_NAME}
    /\ lifecycle = Activated
    /\ call = [fn |-> "trackUsage", pc |-> "ready", url |-> <<>>,
               data |-> NoUsage, started |-> 0,
               calls |-> [u \in FetchUrls |-> 0],
               window |-> [u \in FetchUrls |-> [from |-> 0, to |-> 0]]]

NextTrack ==
    \/ \E url \in FetchUrls : TrackUsage(url)
    \/ TrackOpened
    \/ TrackRead
    \/ TrackWritten
    \/ Tick

SpecTrack == InitTrack /\ [][NextTrack]_vars

---------------------------------------------------------------------------
(* Overlapping calls of trackUsage *)

MaxCalls == 3        \* calls of trackUsage that may be in progress together

\* faulty variant: the transaction is opened "readonly"-style, without
\* exclusion: it starts whatever other transactions are live
ExclusiveNever(id) == TRUE

\* db.transaction("usage", "readwrite"): a readwrite transaction starts when
\* every transaction on the store created before it has finished
Exclusive(id) == call.txs[1] = id

\* usage records the store may hold when the calls begin
BaseUsage == {NoUsage, Usage(2, 0)}

InFlight(id) == call.tracks[id].pc \in {"open", "tx", "put"}

\* calls of trackUsage(url) issued, and finished, so far
CallsOf(url) ==
    Cardinality({id \in 1..MaxCalls :
                    call.tracks[id].pc # "idle" /\ call.tracks[id].url = url})
FinishedOf(url) ==
    Cardinality({id \in 1..MaxCalls :
                    call.tracks[id].pc = "done" /\ call.tracks[id].url = url})

\* trackUsage(url): indexedDB.open is issued; open requests of one database
\* are served in the order they were made
OverlapTrackUsage(id, url) ==
    /\ call.fn = "overlap"
    /\ call.tracks[id].pc = "idle"
    /\ \A j \in 1..(id - 1) : call.tracks[j].pc # "idle"
    /\ call' = [call EXCEPT
                 !.tracks[id] = [pc |-> "open", url |-> url, data |-> NoUsage],
                 !.opens = Append(@, id),
                 !.overlapped[url] =
                     @ \/ \E j \in 1..MaxCalls :
                             InFlight(j) /\ call.tracks[j].url = url]
    /\ UNCHANGED swVars

\* request.onsuccess: the readwrite transaction is created, store.get issued
OverlapOpened(id) ==
    /\ call.fn = "overlap"
    /\ call.tracks[id].pc = "open"
    /\ call.opens[1] = id
    /\ call' = [call EXCEPT !.tracks[id].pc = "tx", !.opens = Tail(@),
                            !.txs = Append(@, id)]
    /\ UNCHANGED swVars

\* getReq.onsuccess: the transaction has started, the record is read and
\* updated, store.put issued
OverlapRead(id) ==
    /\ call.fn = "overlap"
    /\ call.tracks[id].pc = "tx"
    /\ Exclusive(id)
    /\ call' = [call EXCEPT
                 !.tracks[id].pc = "put",
                 !.tracks[id].data =
                     Tracked(usageStore[call.tracks[id].url], now)]
    /\ UNCHANGED swVars

\* the put is done and the transaction commits
OverlapWritten(id) ==
    /\ call.fn = "overlap"
    /\ call.tracks[id].pc = "put"
    /\ usageStore' = [usageStore EXCEPT
                        ![call.tracks[id].url] = call.tracks[id].data]
    /\ call' = [call EXCEPT !.tracks[id].pc = "done",
                            !.txs = SelectSeq(@, LAMBDA j : j # id)]
    /\ UNCHANGED <<worker, SDK_CONFIG, now, idbQueue, cacheStore, cacheQueue,
                   reqs, cacheNames, lifecycle>>

\* tracks[id]: the call id; opens: the open requests not yet served; txs:
\* the live transactions in the order of their creation; base: the store
\* when the calls began; overlapped[u]: a call of trackUsage(u) was issued
\* while another was in progress
InitOverlap ==
    /\ worker \in Revisions
    /\ SDK_CONFIG = DefaultConfig
    /\ now = 0
    /\ usageStore \in [FetchUrls -> BaseUsage]
    /\ idbQueue = <<>>
    /\ cacheStore = [u \in FetchUrls |-> NoEntry]
    /\ cacheQueue = {}
    /\ reqs = [r \in 1..MaxReqs |-> IdleReq]
    /\ cacheNames = {CACHE_NAME}
    /\ lifecycle = Activated
    /\ call = [fn |-> "overlap",
               tracks |-> [id \in 1..MaxCalls |->
                             [pc |-> "idle", url |-> <<>>, data |-> NoUsage]],
               opens |-> <<>>, txs |-> <<>>, base |-> usageStore,
               overlapped |-> [u \in FetchUrls |-> FALSE]]

NextOverlap ==
    \/ \E id \in 1..MaxCalls, url \in FetchUrls : OverlapTrackUsage(id, url)
    \/ \E id \in 1..MaxCalls : OverlapOpened(id)
    \/ \E id \in 1..MaxCalls : OverlapRead(id)
    \/ \E id \in 1..MaxCalls : OverlapWritten(id)
    \/ Tick

SpecOverlap == InitOverlap /\ [][NextOverlap]_vars

---------------------------------------------------------------------------
(* getUsage, and the usage lookups of the fetch handler, step by step *)

MaxLookups == 2      \* usage lookups that may be in progress together

\* what the promise of getUsage holds: the stored record, undefined when the
\* store has no record for the URL, null after an error
Pending == [kind |-> "pending", usage |-> NoUsage]
Found(usage) ==
    IF usage.present THEN [kind |-> "record", usage |-> usage]
    ELSE [kind |-> "undefined", usage |-> NoUsage]

\* faulty variant: an error of the storage layer rejects the promise
OnErrorRejected == [kind |-> "rejected", usage |-> NoUsage]

\* request.onerror = () => resolve(null); getReq.onerror = () => resolve(null)
OnError == [kind |-> "null", usage |-> NoUsage]

\* faulty variant: the handler calls getUsage before trackUsage
OpeningLookupFirst(id, tracked) ==
    IF tracked THEN <<[op |-> "get", id |-> id], [op |-> "track", id |-> id]>>
    ELSE <<[op |-> "get", id |-> id]>>

\* the indexedDB.open requests of one lookup, in the order they are made:
\* trackUsage(request.url), then getUsage(request.url); or getUsage alone
Opening(id, tracked) ==
    IF tracked THEN <<[op |-> "track", id |-> id], [op |-> "get", id |-> id]>>
    ELSE <<[op |-> "get", id |-> id]>>

IdleLookup ==
    [pc |-> "idle", url |-> <<>>, tracked |-> FALSE, failed |-> FALSE,
     result |-> Pending, highPriority |-> FALSE, response |-> "none"]

\* the handler calls trackUsage(url) and getUsage(url); a call of getUsage
\* alone is made once the database exists
Lookup(id, url, tracked) ==
    /\ call.fn = "storage"
    /\ call.lookups[id].pc = "idle"
    /\ \A j \in 1..(id - 1) : call.lookups[j].pc # "idle"
    /\ tracked \/ call.db = "ready"
    /\ call' = [call EXCEPT
                 !.lookups[id] = [IdleLookup EXCEPT !.pc = "open", !.url = url,
                                                    !.tracked = tracked],
                 !.opens = @ \o Opening(id, tracked)]
    /\ UNCHANGED swVars

\* trackUsage: the open request is served. A database that does not exist
\* is created and onupgradeneeded creates the store; in request.onsuccess
\* the readwrite transaction is created, or db.transaction throws when the
\* database has no store
TrackOpenServed ==
    /\ call.fn = "storage"
    /\ call.opens # <<>>
    /\ call.opens[1].op = "track"
    /\ call' = [call EXCEPT
                 !.opens = Tail(@),
                 !.db = IF @ = "none" THEN "ready" ELSE @,
                 !.txs = IF call.db = "storeless" THEN @
                         ELSE Append(@, call.opens[1])]
    /\ UNCHANGED swVars

\* getUsage: the open request is served. A database that does not exist is
\* created without a store, getUsage having no onupgradeneeded; in
\* request.onsuccess the readonly transaction is created, or db.transaction
\* throws and the promise stays pending
GetOpenServed ==
    /\ call.fn = "storage"
    /\ call.opens # <<>>
    /\ call.opens[1].op = "get"
    /\ LET id == call.opens[1].id
           db == IF call.db = "none" THEN "storeless" ELSE call.db
       IN  call' = [call EXCEPT
                     !.opens = Tail(@),
                     !.db = db,
                     !.txs = IF db = "ready" THEN Append(@, call.opens[1])
                             ELSE @,
                     !.lookups[id].pc = IF db = "ready" THEN "read"
                                        ELSE "stuck"]
    /\ UNCHANGED swVars

\* getUsage: the open request fails, request.onerror
GetOpenError ==
    /\ call.fn = "storage"
    /\ call.opens # <<>>
    /\ call.opens[1].op = "get"
    /\ LET id == call.opens[1].id
       IN  call' = [call EXCEPT
                     !.opens = Tail(@),
                     !.lookups[id].pc = "resolved",
                     !.lookups[id].failed = TRUE,
                     !.lookups[id].result = OnError]
    /\ UNCHANGED swVars

\* trackUsage: the readwrite transaction runs and commits
TrackCommitted ==
    /\ call.fn = "storage"
    /\ call.txs # <<>>
    /\ call.txs[1].op = "track"
    /\ LET url == call.lookups[call.txs[1].id].url
       IN  usageStore' = [usageStore EXCEPT ![url] = Tracked(@, now)]
    /\ call' = [call EXCEPT !.txs = Tail(@)]
    /\ UNCHANGED <<worker, SDK_CONFIG, now, idbQueue, cacheStore, cacheQueue,
                   reqs, cacheNames, lifecycle>>

\* getUsage: getReq.onsuccess = () => resolve(getReq.result)
GetRead ==
    /\ call.fn = "storage"
    /\ call.txs # <<>>
    /\ call.txs[1].op = "get"
    /\ LET id == call.txs[1].id
       IN  call' = [call EXCEPT
                     !.txs = Tail(@),
                     !.lookups[id].pc = "resolved",
                     !.lookups[id].result =
                         Found(usageStore[call.lookups[id].url])]
    /\ UNCHANGED swVars

\* getUsage: the read fails, getReq.onerror
GetReadError ==
    /\ call.fn = "storage"
    /\ call.txs # <<>>
    /\ call.txs[1].op = "get"
    /\ LET id == call.txs[1].id
       IN  call' = [call EXCEPT
                     !.txs = Tail(@),
                     !.lookups[id].pc = "resolved",
                     !.lookups[id].failed = TRUE,
                     !.lookups[id].result = OnError]
    /\ UNCHANGED swVars

\* getUsage(request.url).then((usage) => { isHighPriority(usage, ...);
\* return caches.match(request.url) }); a rejected promise rejects the
\* response
Proceed(id) ==
    /\ call.fn = "storage"
    /\ call.lookups[id].pc = "resolved"
    /\ LET l == call.lookups[id]
       IN  call' = [call EXCEPT
                     !.lookups[id].pc =
                         IF l.result.kind = "rejected" THEN "rejected"
                         ELSE "match",
                     !.lookups[id].highPriority =
                         /\ l.result.kind # "rejected"
                         /\ swIsHighPriority(l.result.usage, l.url,
                                             SDK_CONFIG, now)]
    /\ UNCHANGED swVars

\* caches.match(request.url) resolves and the request is answered
Matched(id) ==
    /\ call.fn = "storage"
    /\ call.lookups[id].pc = "match"
    /\ LET hit == cacheStore[call.lookups[id].url].present
           miss == IF worker = "sdk" THEN "undefined" ELSE "503"
       IN  call' = [call EXCEPT
                     !.lookups[id].pc = "responded",
                     !.lookups[id].response = IF hit THEN "cached" ELSE miss]
    /\ UNCHANGED swVars

\* db: "none" before the database exists, "ready" with the store "usage",
\* "storeless" without it; opens: the open requests not yet served, txs: the
\* transactions not yet run, both in the order they were made; fresh: the
\* database did not exist when the worker started. The worker
\* starts on an origin with no database, or with one that holds a record
InitStorage ==
    /\ worker \in Revisions
    /\ SDK_CONFIG = DefaultConfig
    /\ now = 0
    /\ \E db \in {"none", "ready"} :
          /\ usageStore = [u \in FetchUrls |->
                             IF db = "ready" /\ u = <<"b">> THEN Usage(2, 0)
                             ELSE NoUsage]
          /\ call = [fn |-> "storage", db |-> db, fresh |-> db = "none",
                     opens |-> <<>>, txs |-> <<>>,
                     lookups |-> [id \in 1..MaxLookups |-> IdleLookup]]
    /\ idbQueue = <<>>
    /\ cacheStore = [u \in FetchUrls |->
                       IF u = <<"b">> THEN CacheEntry(FALSE) ELSE NoEntry]
    /\ cacheQueue = {}
    /\ reqs = [r \in 1..MaxReqs |-> IdleReq]
    /\ cacheNames = {CACHE_NAME}
    /\ lifecycle = Activated

StorageCallbacks ==
    \/ TrackOpenServed
    \/ GetOpenServed
    \/ TrackCommitted
    \/ GetRead
    \/ \E id \in 1..MaxLookups : Proceed(id)
    \/ \E id \in 1..MaxLookups : Matched(id)

NextStorage ==
    \/ \E id \in 1..MaxLookups, url \in FetchUrls, tracked \in BOOLEAN :
          Lookup(id, url, tracked)
    \/ StorageCallbacks
    \/ GetOpenError
    \/ GetReadError
    \/ Tick

SpecStorage == InitStorage /\ [][NextStorage]_vars

\* the event loop delivers every storage event in the end
SpecStorageFair == SpecStorage /\ WF_vars(StorageCallbacks)

---------------------------------------------------------------------------
(* Two runs of the worker that differ only in the debug flag *)

MaxDebugFetches == 2     \* fetch events intercepted in each of the two runs

\* the payloads the two runs are configured with, up to the debug flag
DebugPayloads ==
    {Config(<<<<"a">>>>, <<<<"b">>>>, FALSE, Num(2), Num(0), max, nq, sig) :
        max \in {Infinity, Num(1)},
        nq \in {"auto", "slow"},
        sig \in {<<>>, <<Entry(<<"a">>, "normal"), Entry(<<"2">>, "high")>>}}

\* one run: the configuration, the usage store and the transactions queued
\* on it, the cache and the writes pending on it, the request being
\* handled, and whether console.log was ever called
IdleRun ==
    [cfg |-> DefaultConfig,
     usage |-> [u \in FetchUrls |-> NoUsage], idb |-> <<>>,
     cache |-> [u \in FetchUrls |-> FALSE], writes |-> {},
     req |-> [pc |-> "idle", url |-> <<>>, response |-> "none"],
     console |-> FALSE]

\* if (SDK_CONFIG.debug) { console.log(...) }
Log(s) == [s EXCEPT !.console = @ \/ s.cfg.debug]

\* the portal's isHighPriority writes its decision to the console on every
\* path when debug is set; the sdk's writes nothing
LogPriority(s) == IF worker = "portal" THEN Log(s) ELSE s

RunIntercepted(s) ==
    LET RECURSIVE Sum(_)
        Sum(S) == IF S = {} THEN 0
                  ELSE LET u == CHOOSE x \in S : TRUE
                       IN  s.usage[u].count + Sum(S \ {u})
    IN  Sum(FetchUrls)
        + Cardinality({i \in 1..Len(s.idb) : s.idb[i].op = "track"})
        + (IF s.req.pc = "network" THEN 1 ELSE 0)

Respond(s, response) ==
    [s EXCEPT !.req.pc = "responded", !.req.response = response]

\* the message listener
OnMessage(s, payload, debug) ==
    Log([s EXCEPT !.cfg = [payload EXCEPT !.debug = debug]])

\* the fetch listener up to event.respondWith
OnFetch(s, method, url) ==
    IF s.req.pc \notin {"idle", "responded", "passthrough"}
          \/ RunIntercepted(s) >= MaxDebugFetches
    THEN s
    ELSE IF method # "GET" \/ ~Watched(url, s.cfg)
    THEN [s EXCEPT !.req = [pc |-> "passthrough", url |-> url,
                            response |-> "none"]]
    ELSE Log([s EXCEPT !.req = [pc |-> "network", url |-> url,
                                response |-> "none"]])

\* the success handler: the sdk's to its end, the portal's up to
\* await getUsage(request.url)
OnNetworkSuccess(s, header, conn) ==
    LET url == s.req.url
        tracked == [s EXCEPT !.idb = Append(@, Track(url))]
        over == Oversize(SizeOf(header), s.cfg)
        slow == swGetEffectiveNetworkQuality(conn, s.cfg) = "slow"
    IN  IF s.req.pc # "network" THEN s
        ELSE IF over THEN Log(Respond(tracked, "network"))
        ELSE IF worker = "portal"
        THEN [tracked EXCEPT !.idb = Append(@, Get(url, 1)),
                             !.req.pc = "awaitUsage"]
        ELSE IF slow /\ ~swIsHighPriority(NoUsage, url, s.cfg, now)
        THEN Log(Respond(tracked, "network"))
        ELSE Log(Respond([tracked EXCEPT !.writes = @ \cup {url}], "network"))

\* the failure handler up to getUsage(request.url)
OnNetworkFailure(s) ==
    IF s.req.pc # "network" THEN s
    ELSE [s EXCEPT !.idb = @ \o <<Track(s.req.url), Get(s.req.url, 1)>>,
                   !.req.pc = "awaitUsageFail"]

\* the readwrite transaction of trackUsage
OnTrack(s) ==
    IF s.idb = <<>> \/ s.idb[1].op # "track" THEN s
    ELSE [s EXCEPT !.idb = Tail(@),
                   !.usage[s.idb[1].url] = Tracked(@, now)]

\* getUsage resolves: the portal's success handler runs to its end, or the
\* failure handler evaluates the priority and issues caches.match
OnUsage(s, conn) ==
    LET url == s.req.url
        read == [s EXCEPT !.idb = Tail(@)]
        high == swIsHighPriority(s.usage[url], url, s.cfg, now)
        slow == swGetEffectiveNetworkQuality(conn, s.cfg) = "slow"
    IN  IF s.idb = <<>> \/ s.idb[1].op # "get" THEN s
        ELSE IF s.req.pc = "awaitUsageFail"
        THEN Log(LogPriority([read EXCEPT !.req.pc = "awaitMatch"]))
        ELSE IF slow /\ ~high
        THEN Log(LogPriority(Respond(read, "network")))
        ELSE IF high
        THEN LogPriority(Respond([read EXCEPT !.writes = @ \cup {url}],
                                 "network"))
        ELSE Log(LogPriority(Respond(read, "network")))

\* caches.match(request.url) resolves
OnMatch(s) ==
    IF s.req.pc # "awaitMatch" THEN s
    ELSE IF worker = "sdk"
    THEN Respond(s, IF s.cache[s.req.url] THEN "cached" ELSE "undefined")
    ELSE Log(Respond(s, IF s.cache[s.req.url] THEN "cached" ELSE "503"))

\* faulty variant: the portal's cache.put is inside the debug block
OnPutInsideDebugBlock(s, url) ==
    IF url \notin s.writes THEN s
    ELSE IF worker = "sdk"
    THEN [s EXCEPT !.writes = @ \ {url}, !.cache[url] = TRUE]
    ELSE Log([s EXCEPT !.writes = @ \ {url}, !.cache[url] = @ \/ s.cfg.debug])

\* caches.open(CACHE_NAME).then((cache) => { cache.put(request.url, clone) })
OnPut(s, url) ==
    IF url \notin s.writes THEN s
    ELSE IF worker = "sdk"
    THEN [s EXCEPT !.writes = @ \ {url}, !.cache[url] = TRUE]
    ELSE Log([s EXCEPT !.writes = @ \ {url}, !.cache[url] = TRUE])

\* caches.open(CACHE_NAME) rejects
OnPutFails(s, url) ==
    IF url \notin s.writes THEN s ELSE [s EXCEPT !.writes = @ \ {url}]

\* both runs receive the same event; the event happens if it is possible in
\* one of them
Both(F(_)) ==
    /\ call.fn = "debug"
    /\ call' = [call EXCEPT !.runs = [i \in 1..2 |-> F(call.runs[i])]]
    /\ call' # call
    /\ UNCHANGED swVars

DebugMessage(payload, debug) ==
    /\ call.fn = "debug"
    /\ call' = [call EXCEPT !.runs =
                 [i \in 1..2 |-> OnMessage(call.runs[i], payload, debug[i])]]
    /\ UNCHANGED swVars

DebugFetch(method, url) == Both(LAMBDA s : OnFetch(s, method, url))
DebugNetworkSuccess(header, conn) ==
    Both(LAMBDA s : OnNetworkSuccess(s, header, conn))
DebugNetworkFailure == Both(OnNetworkFailure)
DebugTrack == Both(OnTrack)
DebugUsage(conn) == Both(LAMBDA s : OnUsage(s, conn))
DebugMatch == Both(OnMatch)
DebugPut(url) == Both(LAMBDA s : OnPut(s, url))
DebugPutFails(url) == Both(LAMBDA s : OnPutFails(s, url))

InitDebug ==
    /\ worker \in Revisions
    /\ SDK_CONFIG = DefaultConfig
    /\ now = 0
    /\ usageStore = [u \in FetchUrls |-> NoUsage]
    /\ idbQueue = <<>>
    /\ cacheStore = [u \in FetchUrls |-> NoEntry]
    /\ cacheQueue = {}
    /\ reqs = [r \in 1..MaxReqs |-> IdleReq]
    /\ cacheNames = {CACHE_NAME}
    /\ lifecycle = Activated
    /\ call = [fn |-> "debug", runs |-> [i \in 1..2 |-> IdleRun]]

NextDebug ==
    \/ \E payload \in DebugPayloads, debug \in [1..2 -> BOOLEAN] :
          DebugMessage(payload, debug)
    \/ Tick
    \/ \E method \in Methods, url \in FetchUrls : DebugFetch(method, url)
    \/ \E header \in Headers, conn \in ConnTypes :
          DebugNetworkSuccess(header, conn)
    \/ DebugNetworkFailure
    \/ DebugTrack
    \/ \E conn \in ConnTypes : DebugUsage(conn)
    \/ DebugMatch
    \/ \E url \in FetchUrls : DebugPut(url)
    \/ \E url \in FetchUrls : DebugPutFails(url)

SpecDebug == InitDebug /\ [][NextDebug]_vars

---------------------------------------------------------------------------
(* One run that remembers the configuration of each fetch event *)

SnapshotPayloads ==
    {Config(<<<<"a">>>>, <<<<"b">>>>, FALSE, Num(2), Num(0), max, nq, <<>>) :
        max \in {Infinity, Num(1)}, nq \in {"auto", "slow"}}
      \cup {Config(<<>>, <<<<"b">>>>, FALSE, Num(2), Num(0), Infinity, "auto",
                   <<>>)}

\* call.run is the run; call.at is SDK_CONFIG as the fetch listener of the
\* request being handled read it, kept for the properties only
Snapshot(F(_)) ==
    /\ call.fn = "snapshot"
    /\ call' = [call EXCEPT !.run = F(call.run)]
    /\ call' # call
    /\ UNCHANGED swVars

SnapshotMessage(payload) ==
    Snapshot(LAMBDA s : OnMessage(s, payload, FALSE))

SnapshotFetch(method, url) ==
    /\ call.fn = "snapshot"
    /\ call' = [call EXCEPT !.run = OnFetch(call.run, method, url),
                            !.at = call.run.cfg]
    /\ call'.run # call.run
    /\ UNCHANGED swVars

SnapshotNetworkSuccess(header, conn) ==
    Snapshot(LAMBDA s : OnNetworkSuccess(s, header, conn))
SnapshotNetworkFailure == Snapshot(OnNetworkFailure)
SnapshotTrack == Snapshot(OnTrack)
SnapshotUsage(conn) == Snapshot(LAMBDA s : OnUsage(s, conn))
SnapshotMatch == Snapshot(OnMatch)
SnapshotPut(url) == Snapshot(LAMBDA s : OnPut(s, url))

InitSnapshot ==
    /\ worker \in Revisions
    /\ SDK_CONFIG = DefaultConfig
    /\ now = 0
    /\ usageStore = [u \in FetchUrls |-> NoUsage]
    /\ idbQueue = <<>>
    /\ cacheStore = [u \in FetchUrls |-> NoEntry]
    /\ cacheQueue = {}
    /\ reqs = [r \in 1..MaxReqs |-> IdleReq]
    /\ cacheNames = {CACHE_NAME}
    /\ lifecycle = Activated
    /\ call = [fn |-> "snapshot", run |-> IdleRun, at |-> DefaultConfig]

NextSnapshot ==
    \/ \E payload \in SnapshotPayloads : SnapshotMessage(payload)
    \/ \E method \in Methods, url \in FetchUrls : SnapshotFetch(method, url)
    \/ \E header \in Headers, conn \in ConnTypes :
          SnapshotNetworkSuccess(header, conn)
    \/ SnapshotNetworkFailure
    \/ SnapshotTrack
    \/ \E conn \in ConnTypes : SnapshotUsage(conn)
    \/ SnapshotMatch
    \/ \E url \in FetchUrls : SnapshotPut(url)

SpecSnapshot == InitSnapshot /\ [][NextSnapshot]_vars

---------------------------------------------------------------------------
(* Properties of the fetch handler *)

Succeeded(r) == reqs[r].pc = "responded" /\ reqs[r].path = "success"
Failed(r) == reqs[r].pc = "responded" /\ reqs[r].path = "failure"

\* C1 (as claimed): on the success path, with effective network quality
\* 'fast' and a declared size within maxResourceSize, the response is
\* written to the cache whatever isHighPriority says for the URL.
C1_FastNetworkAlwaysCaches ==
    \A r \in Slots :
        (Succeeded(r) /\ reqs[r].netQuality = "fast" /\ ~reqs[r].overLimit)
            => reqs[r].admitted

\* C2 (as claimed): on the success path, with effective network quality
\* 'slow' and the size check passed, the response is written to the cache
\* if and only if isHighPriority of the URL's stored usage record is true.
C2_SlowNetworkCachesIffStoredPriority ==
    \A r \in Slots :
        (Succeeded(r) /\ reqs[r].netQuality = "slow" /\ ~reqs[r].overLimit)
            => (reqs[r].admitted <=> reqs[r].storedPriority)

C4_FailureWithoutCacheGives503 ==
    \A r \in Slots :
        (Failed(r) /\ reqs[r].response # "cached") => reqs[r].response = "503"

---------------------------------------------------------------------------
(* Properties of isHighPriority, in priority.cjs and in the worker *)

\* positions, in insertion order, of the patterns the url contains
Matching(c) ==
    {i \in 1..Len(c.config.significance) :
        Includes(c.url, c.config.significance[i].pattern)}

SigAt(c, i) == c.config.significance[i].sig

\* the matching pattern that was inserted first
FirstInserted(c, i) ==
    i \in Matching(c) /\ \A j \in Matching(c) : i <= j

\* the matching pattern that property enumeration reaches first
FirstVisited(c, i) ==
    /\ i \in Matching(c)
    /\ \A j \in Matching(c) \ {i} : VisitedBefore(c.config.significance, i, j)

\* C5 (as claimed): a map with a pattern P -> 'high' and a URL containing
\* P give true, for every usage.
C5_AnyHighPatternWins ==
    call.done =>
        ((\E i \in Matching(call) : SigAt(call, i) = "high") => call.value)

\* C5 (amended): when the first pattern the scan visits among those the
\* URL contains has value 'high', isHighPriority is true for every usage.
C5_FirstVisitedHighWins ==
    call.done =>
        \A i \in Matching(call) :
            (FirstVisited(call, i) /\ SigAt(call, i) = "high") => call.value

\* C5 witness: a zero-count, stale usage record, a 'low' pattern that also
\* matches, and the first visited pattern 'high': the result is true.
C5_Witness ==
    /\ call.done
    /\ call.value
    /\ call.usage = Usage(0, 0)
    /\ call.t > DEFAULT_RECENCY
    /\ \E i, j \in Matching(call) :
          /\ FirstVisited(call, i)
          /\ SigAt(call, i) = "high"
          /\ SigAt(call, j) = "low"

\* C6 (as claimed): a map with a pattern P -> 'low' and a URL containing P
\* give false, for every usage.
C6_AnyLowPatternLoses ==
    call.done =>
        ((\E i \in Matching(call) : SigAt(call, i) = "low") => ~call.value)

\* C6 (amended): when the first pattern the scan visits among those the
\* URL contains has value 'low', isHighPriority is false for every usage.
C6_FirstVisitedLowLoses ==
    call.done =>
        \A i \in Matching(call) :
            (FirstVisited(call, i) /\ SigAt(call, i) = "low") => ~call.value

\* C6 witness: a record far above the frequency threshold, accessed now,
\* and the first visited pattern 'low': the result is false.
C6_Witness ==
    /\ call.done
    /\ ~call.value
    /\ call.usage.present
    /\ call.usage.count = MaxCount
    /\ call.usage.lastAccessed = call.t
    /\ call.config.frequencyThreshold = Num(0)
    /\ \E i \in Matching(call) : FirstVisited(call, i) /\ SigAt(call, i) = "low"

\* C7 (as claimed): the matching pattern inserted first decides: true if it
\* is 'high', false if it is 'low'.
C7_FirstInsertedDecides ==
    call.done =>
        \A i \in Matching(call) :
            FirstInserted(call, i) =>
                /\ SigAt(call, i) = "high" => call.value
                /\ SigAt(call, i) = "low" => ~call.value

\* the frequency / recency rule on the configured thresholds
FrequentOrRecent(c) ==
    \/ c.usage.count >= c.config.frequencyThreshold.n
    \/ c.t - c.usage.lastAccessed <= c.config.recencyThreshold.n

ThresholdsSet(c) ==
    /\ c.config.frequencyThreshold.kind = "num"
    /\ c.config.recencyThreshold.kind = "num"

\* C8 (as claimed): when the first matching pattern is 'normal' the result
\* is the frequency / recency result, false without usage, whatever the
\* later matching patterns are.
C8_NormalStopsTheScan ==
    (call.done /\ ThresholdsSet(call)) =>
        \A i \in Matching(call) :
            (FirstVisited(call, i) /\ SigAt(call, i) = "normal") =>
                (call.value <=> (call.usage.present /\ FrequentOrRecent(call)))

\* the thresholds isHighPriority of priority.cjs compares with: the
\* configured ones, the documented defaults for those left out
DocumentedFrequentOrRecent(c) ==
    LET f == c.config.frequencyThreshold
        r == c.config.recencyThreshold
    IN  \/ c.usage.count >= (IF f.kind = "num" THEN f.n ELSE DEFAULT_FREQUENCY)
        \/ c.t - c.usage.lastAccessed
              <= (IF r.kind = "num" THEN r.n ELSE DEFAULT_RECENCY)

\* C9: for a URL no pattern matches and a present usage record the result
\* is (count >= frequencyThreshold) or (now - lastAccessed <= recencyThreshold);
\* priority.cjs takes 3 and 24h for a threshold the configuration leaves out.
C9_FrequentOrRecent ==
    (call.done /\ Matching(call) = {} /\ call.usage.present) =>
        /\ ThresholdsSet(call) => (call.value <=> FrequentOrRecent(call))
        /\ call.fn = "priority.isHighPriority"
              => (call.value <=> DocumentedFrequentOrRecent(call))

\* C9 witness: a frequent but stale record gives true.
C9_Witness ==
    /\ call.done
    /\ call.value
    /\ ThresholdsSet(call)
    /\ Matching(call) = {}
    /\ call.usage.present
    /\ call.usage.count >= call.config.frequencyThreshold.n
    /\ call.usage.count > 0
    /\ call.t - call.usage.lastAccessed > call.config.recencyThreshold.n

\* C10: without usage, and with no matching pattern, the result is false
\* whatever the thresholds are.
C10_NoUsageNoMatchIsFalse ==
    (call.done /\ ~call.usage.present /\ Matching(call) = {}) => ~call.value

\* C10 witness: frequencyThreshold 0, no usage, no match: false.
C10_Witness ==
    /\ call.done
    /\ ~call.value
    /\ ~call.usage.present
    /\ Matching(call) = {}
    /\ call.config.significance # <<>>
    /\ call.config.frequencyThreshold = Num(0)

---------------------------------------------------------------------------
(* Properties of the admission filter *)

\* a fetch event has just been dispatched to slot r
Dispatched(r) ==
    /\ reqs[r].pc \in {"idle", "responded", "passthrough"}
    /\ reqs'[r] # reqs[r]

\* the URL contains no entry of the configured pages and none of the apis
MatchesNothing(url) ==
    /\ \A i \in 1..Len(SDK_CONFIG.pages) : ~Includes(url, SDK_CONFIG.pages[i])
    /\ \A i \in 1..Len(SDK_CONFIG.apis) : ~Includes(url, SDK_CONFIG.apis[i])

\* C17: a request that is not GET, or whose URL contains no entry of pages
\* and no entry of apis, passes through: the fetch event leaves the usage
\* store, its pending transactions, the cache and the pending cache writes
\* unchanged, and the request never receives a response from the worker.
C17_PassThrough ==
    /\ [][\A r \in Slots :
            (Dispatched(r) /\ (reqs'[r].method # "GET"
                                  \/ MatchesNothing(reqs'[r].url)))
                => /\ reqs'[r].pc = "passthrough"
                   /\ UNCHANGED <<usageStore, idbQueue, cacheStore, cacheQueue>>
         ]_vars
    /\ [](\A r \in Slots :
            reqs[r].pc = "passthrough"
                => /\ reqs[r].response = "none"
                   /\ reqs[r].path = "none"
                   /\ ~reqs[r].admitted
                   /\ \A i \in 1..Len(idbQueue) : idbQueue[i].r # r)

\* C17 witness: a POST of a watched, already tracked URL has passed through.
C17_Witness ==
    \E r \in Slots :
        /\ reqs[r].pc = "passthrough"
        /\ reqs[r].method = "POST"
        /\ ~MatchesNothing(reqs[r].url)
        /\ usageStore[reqs[r].url].present

\* C18: as long as no configuration message has been received the worker
\* runs with the defaults of the script and intercepts nothing: no usage
\* record, no pending usage update, no cache entry, no pending cache write
\* and no request that was given a response. (Every configuration message
\* of the model watches something, so SDK_CONFIG is the default object
\* exactly until the first message.)
C18_NothingBeforeConfiguration ==
    SDK_CONFIG = DefaultConfig =>
        /\ SDK_CONFIG.pages = <<>> /\ SDK_CONFIG.apis = <<>>
        /\ \A u \in FetchUrls : usageStore[u] = NoUsage /\ cacheStore[u] = NoEntry
        /\ idbQueue = <<>>
        /\ cacheQueue = {}
        /\ \A r \in Slots :
              /\ reqs[r].pc \in {"idle", "passthrough"}
              /\ reqs[r].response = "none"

\* C18 witness: before any message, a GET of a URL that the later
\* configurations watch has passed through.
C18_Witness ==
    /\ SDK_CONFIG = DefaultConfig
    /\ \E r \in Slots :
          /\ reqs[r].pc = "passthrough"
          /\ reqs[r].method = "GET"
          /\ \E payload \in Payloads : Watched(reqs[r].url, payload)

---------------------------------------------------------------------------
(* Properties of the size, network and configuration utilities *)

SizeCall == call.fn = "priority.shouldSkipBySize" /\ call.done

\* C11: shouldSkipBySize is false for an absent size and for size 0, false
\* for a size equal to maxResourceSize, true for maxResourceSize + 1, equal
\* to (size > maxResourceSize) for every known non-zero size, and false for
\* every size when maxResourceSize is not set.
C11_SkipIffAboveLimit ==
    SizeCall =>
        LET size == call.size
            max == call.config.maxResourceSize
        IN  /\ (size.kind = "undef" \/ size = Num(0)) => ~call.value
            /\ (size.kind = "num" /\ size.n # 0 /\ max.kind = "num") =>
                  /\ size.n = max.n => ~call.value
                  /\ size.n = max.n + 1 => call.value
                  /\ call.value <=> size.n > max.n
            /\ (size.kind = "num" /\ size.n # 0 /\ max.kind = "inf") =>
                  ~call.value
            /\ max.kind = "undef" => ~call.value

\* C11 witness: with limit 0, size 0 is kept and size 1 is skipped; here the
\* call with a non-zero size one above a non-zero limit has returned true.
C11_Witness ==
    /\ SizeCall
    /\ call.value
    /\ call.config.maxResourceSize.kind = "num"
    /\ call.config.maxResourceSize.n > 0
    /\ call.size = Num(call.config.maxResourceSize.n + 1)

NetworkCall ==
    /\ call.fn \in {"priority.getEffectiveNetworkQuality",
                    "worker.getEffectiveNetworkQuality"}
    /\ call.done

\* C12: with the mode set to 'fast' or 'slow', getEffectiveNetworkQuality
\* returns the mode unchanged for every connection type, absent included.
C12_OverrideWins ==
    (NetworkCall /\ call.configNetwork \in {"fast", "slow"}) =>
        call.value = call.configNetwork

\* C12 witness: mode 'fast' on a 2g connection has given 'fast', in the
\* worker, where the mode is SDK_CONFIG.networkQuality.
C12_Witness ==
    /\ NetworkCall
    /\ call.fn = "worker.getEffectiveNetworkQuality"
    /\ SDK_CONFIG.networkQuality = "fast"
    /\ call.effectiveType = "2g"
    /\ call.value = "fast"

\* C13: in 'auto' mode (also when priority.cjs is called without a mode) the
\* result is 'slow' exactly for slow-2g, 2g and 3g and 'fast' for every
\* other connection type, absent and unknown ones included; for every mode
\* the result is 'fast' or 'slow'.
C13_AutoDetects ==
    NetworkCall =>
        /\ call.configNetwork \in {"auto", "undefined"} =>
              /\ call.value = "slow"
                    <=> call.effectiveType \in {"slow-2g", "2g", "3g"}
              /\ call.value = "fast"
                    <=> call.effectiveType \notin {"slow-2g", "2g", "3g"}
        /\ call.value \in {"fast", "slow"}

\* C13 witness: 'auto' with no connection type has given 'fast'.
C13_Witness ==
    /\ NetworkCall
    /\ call.fn = "priority.getEffectiveNetworkQuality"
    /\ call.configNetwork = "auto"
    /\ call.effectiveType = "none"
    /\ call.value = "fast"

ConfigCall == call.fn \in {"config.buildConfig", "index.init"} /\ call.done

NumericFields == {"frequencyThreshold", "recencyThreshold", "maxResourceSize"}
OtherFields == {"pages", "apis", "debug", "networkQuality", "significance"}

Absent(f) == call.input[f].kind = "undef"

\* the documented default of each field
Documented ==
    [pages |-> <<>>, apis |-> <<>>, debug |-> FALSE,
     frequencyThreshold |-> Num(DEFAULT_FREQUENCY),
     recencyThreshold |-> Num(DEFAULT_RECENCY),
     maxResourceSize |-> Infinity, networkQuality |-> "auto",
     significance |-> <<>>]

\* C14: buildConfig without overrides returns pages [], apis [], debug
\* false, frequencyThreshold 3, recencyThreshold 86400000, maxResourceSize
\* unbounded, networkQuality 'auto' and significance {}; with a partial
\* input every field that is not supplied keeps its default and every
\* supplied field has the supplied value.
C14_DefaultsAndPartialMerge ==
    (ConfigCall /\ call.fn = "config.buildConfig") =>
        /\ (\A f \in NumericFields \cup OtherFields : Absent(f))
              => call.value = Documented
        /\ \A f \in NumericFields \cup OtherFields :
              Absent(f) => call.value[f] = Documented[f]
        /\ \A f \in NumericFields :
              ~Absent(f) => call.value[f] = call.input[f]
        /\ \A f \in OtherFields :
              ~Absent(f) => call.value[f] = call.input[f].v

\* C14 witness: only pages and frequencyThreshold are supplied; the result
\* has them and the defaults of apis and recencyThreshold.
C14_Witness ==
    /\ ConfigCall
    /\ call.fn = "config.buildConfig"
    /\ \A f \in NumericFields \cup OtherFields :
          Absent(f) <=> f \notin {"pages", "frequencyThreshold"}
    /\ call.value.pages = << <<"a">> >>
    /\ call.value.frequencyThreshold = Num(2)
    /\ call.value.apis = <<>>
    /\ call.value.recencyThreshold = Num(DEFAULT_RECENCY)

\* C15: in buildConfig, and in the merge of init, a supplied value of a
\* numeric or boolean field is returned as supplied, 0 and false included;
\* such a field has its default only when it is absent from the input (or
\* when the supplied value is the default itself).
C15_FalsyValuesSurvive ==
    ConfigCall =>
        /\ \A f \in NumericFields :
              /\ ~Absent(f) => call.value[f] = call.input[f]
              /\ call.value[f] = Documented[f]
                    => (Absent(f) \/ call.input[f] = Documented[f])
        /\ ~Absent("debug") => call.value.debug = call.input.debug.v

\* C15 witness: the three numeric fields are supplied as 0 and returned as 0.
C15_Witness ==
    /\ ConfigCall
    /\ \A f \in NumericFields : call.input[f] = Num(0) /\ call.value[f] = Num(0)
    /\ call.input.debug = Bool(FALSE)
    /\ ~call.value.debug

---------------------------------------------------------------------------
(* Properties of trackUsage *)

\* C16: when the calls of trackUsage do not overlap, after n calls for a URL
\* its record has count n, starting from the zero record on the first call,
\* and lastAccessed is the clock value read during the last of these calls;
\* a URL that was never tracked has no record.
C16_SequentialTracking ==
    (call.fn = "trackUsage" /\ call.pc \in {"ready", "done"}) =>
        \A u \in FetchUrls :
            IF call.calls[u] = 0 THEN usageStore[u] = NoUsage
            ELSE /\ usageStore[u].present
                 /\ usageStore[u].count = call.calls[u]
                 /\ call.window[u].from <= usageStore[u].lastAccessed
                 /\ usageStore[u].lastAccessed <= call.window[u].to

\* C16 witness: a URL tracked MaxTracks times, the last time after the clock
\* has moved, has count MaxTracks and the later timestamp.
C16_Witness ==
    /\ call.fn = "trackUsage"
    /\ call.pc = "done"
    /\ call.calls[call.url] = MaxTracks
    /\ call.started > 0
    /\ usageStore[call.url] = Usage(MaxTracks, call.started)

---------------------------------------------------------------------------
(* Properties of install and activate *)

\* C19: when the activate event has completed, every bucket with a name
\* other than CACHE_NAME is gone, the bucket CACHE_NAME exists, and no step
\* of install or activate has changed the entries of that bucket.
C19_OnlyCurrentBucketSurvives ==
    /\ [](lifecycle.phase = "activated" => cacheNames = {CACHE_NAME})
    /\ [][cacheStore' = cacheStore]_vars

\* C19 witness: activation has completed after deleting two other buckets,
\* and the current bucket, which was there before, still has an entry.
C19_Witness ==
    /\ lifecycle.phase = "activated"
    /\ lifecycle.keys = OtherNames \cup {CACHE_NAME}
    /\ cacheNames = {CACHE_NAME}
    /\ \E u \in FetchUrls : cacheStore[u].present

\* C20: no step of install or activate changes the usage store: every
\* record keeps its count and lastAccessed, and no record appears.
C20_LifecycleKeepsUsage ==
    [][usageStore' = usageStore]_vars

\* C20 witness: activation has completed, a bucket was deleted, and a usage
\* record with count 2 is in the store.
C20_Witness ==
    /\ lifecycle.phase = "activated"
    /\ lifecycle.keys # {CACHE_NAME}
    /\ \E u \in FetchUrls : usageStore[u].present /\ usageStore[u].count = 2

---------------------------------------------------------------------------
(* Properties of the caching decision *)

\* the significance the worker's scan gives a URL under the current
\* configuration: "high", "low" or "none"
SignificanceOf(url) == swScanFrom(ForIn(SDK_CONFIG.significance), url, 1)

\* the cache writes a step issues
Issued == cacheQueue' \ cacheQueue

\* C22 (as claimed): a URL whose matching significance is 'low' is never
\* cached: no step issues a cache write for such a URL, whatever the
\* network quality and however often the URL was accessed.
C22_LowNeverCached ==
    [][\A w \in Issued : SignificanceOf(w.url) # "low"]_vars

\* accesses of a URL the worker has counted or is about to count, after
\* the step: the stored count plus the trackUsage calls still queued
AccessesAfter(url) ==
    usageStore'[url].count
      + Cardinality({i \in 1..Len(idbQueue') : idbQueue'[i] = Track(url)})

\* C23 (as claimed): for a URL with no 'high' significance, a response is
\* not cached on an access made before the URL's access count has reached
\* frequencyThreshold: every cache write a step issues for such a URL finds
\* the count, this access included, at frequencyThreshold or above.
C23_NotCachedBeforeThreshold ==
    [][\A w \in Issued :
          SignificanceOf(w.url) # "high"
              => JsGE(Num(AccessesAfter(w.url)), SDK_CONFIG.frequencyThreshold)]_vars

\* C24 (as claimed): once a response for a URL is in the cache, a later
\* intercepted request for that URL is answered from the cache: no fetch
\* event issues a network request for a URL that has a cache entry.
C24_CachedAnsweredWithoutNetwork ==
    [][\A r \in Slots :
          (reqs[r].pc # "network" /\ reqs'[r].pc = "network")
              => ~cacheStore[reqs'[r].url].present]_vars

---------------------------------------------------------------------------
(* Properties of usage tracking in the fetch handler *)

\* the requests for a URL whose network attempt settles in a step, by the
\* success handler or by the failure handler
Settling(url) ==
    {r \in Slots : /\ reqs[r].url = url
                   /\ reqs[r].pc = "network"
                   /\ reqs'[r].pc # "network"}

\* C25: every intercepted request is tracked exactly once, whether the
\* network attempt succeeds or fails: a step adds one access of a URL for
\* each request for it whose network attempt settles in the step and none
\* otherwise, so that no path tracks a request twice and none skips it, and
\* the stored count never goes down.
C25_TrackedExactlyOnce ==
    [][\A url \in FetchUrls :
          /\ AccessesAfter(url) = Counted(url) + Cardinality(Settling(url))
          /\ usageStore'[url].count >= usageStore[url].count]_vars

\* C25 witness: a URL was requested twice, the first request succeeded and
\* its response was cached, the second failed and was answered from the
\* cache, and the count of the URL is exactly 2.
C25_Witness ==
    \E r \in Slots :
        /\ Failed(r)
        /\ reqs[r].response = "cached"
        /\ idbQueue = <<>>
        /\ usageStore[reqs[r].url].count = 2
        /\ Intercepted = 2

\* a usage record that holds the update of request r: one more access than
\* had been counted when the handler called trackUsage, stamped no earlier
IncludesOwnUpdate(r) ==
    /\ reqs[r].usageRead.present
    /\ reqs[r].usageRead.count >= reqs[r].tracksBefore + 1
    /\ reqs[r].usageRead.lastAccessed >= reqs[r].settledAt

\* C26 (as claimed): within one request the usage update comes before the
\* priority evaluation: on the success path and on the failure path, the
\* usage record isHighPriority is called with already holds the request's
\* own increment and lastAccessed.
C26_PriorityReadsOwnUpdate ==
    \A r \in Slots : reqs[r].evaluated => IncludesOwnUpdate(r)

---------------------------------------------------------------------------
(* Properties of the response on the success path *)

\* C29: on the success path the caller receives the response the network
\* gave, whether the response was admitted to the cache or rejected by the
\* size check, by the slow-network gate or by priority, and nothing but a
\* clone of a response is handed to the cache.
C29_OriginalReturnedCloneStored ==
    /\ \A r \in Slots : Succeeded(r) => reqs[r].response = "network"
    /\ \A w \in cacheQueue : w.body = "clone"

\* C29 witness: an admitted request has been answered with the network
\* response while the clone waits to be written.
C29_Witness ==
    \E r \in Slots :
        /\ Succeeded(r)
        /\ reqs[r].admitted
        /\ reqs[r].response = "network"
        /\ Put(reqs[r].url, FALSE) \in cacheQueue

\* C30: the response never waits for the cache write. The step that
\* answers a request on the success path completes no cache write, a step
\* that settles a cache write, stored or failed, changes no request, and an
\* admitted request holds the network response whatever became of its write.
C30_ResponseIndependentOfCacheWrite ==
    /\ [](\A r \in Slots :
            (Succeeded(r) /\ reqs[r].admitted) => reqs[r].response = "network")
    /\ [][/\ (\E r \in Slots : ~Succeeded(r) /\ Succeeded(r)')
              => (cacheStore' = cacheStore /\ cacheQueue \subseteq cacheQueue')
          /\ (cacheQueue' # cacheQueue /\ cacheQueue' \subseteq cacheQueue)
              => reqs' = reqs]_vars

\* C30 witness: an admitted request was answered with the network response,
\* and its cache write, pending when the answer was given, has failed: the
\* URL has no entry and no write is pending.
C30_Witness ==
    \E r \in Slots :
        /\ Succeeded(r)
        /\ reqs[r].admitted
        /\ reqs[r].response = "network"
        /\ ~cacheStore[reqs[r].url].present
        /\ \A w \in cacheQueue : w.url # reqs[r].url

---------------------------------------------------------------------------
(* Properties of overlapping calls of trackUsage *)

\* how much the stored count of a URL has grown since the calls began
Growth(url) == usageStore[url].count - call.base[url].count

\* C27: when two requests for the same URL overlap and the usage updates
\* of both have completed, the count of the URL has grown by 1 or by 2,
\* never by 0 and never by more than 2.
C27_TwoOverlappingGrowByOneOrTwo ==
    call.fn = "overlap" =>
        \A url \in FetchUrls :
            (CallsOf(url) = 2 /\ FinishedOf(url) = 2) => Growth(url) \in {1, 2}

\* C27 witness: two calls for one URL, the second issued while the first
\* was in progress, have both completed, and the count has grown by 2.
C27_Witness ==
    /\ call.fn = "overlap"
    /\ \E url \in FetchUrls :
          /\ call.overlapped[url]
          /\ CallsOf(url) = 2
          /\ FinishedOf(url) = 2
          /\ Growth(url) = 2

\* C28: trackUsage reads, increments and writes in one readwrite
\* transaction, so no update is lost: in every interleaving of calls, the
\* count of each URL is higher than at the start by exactly the number of
\* calls for it that have finished.
C28_NoLostUpdate ==
    call.fn = "overlap" =>
        \A url \in FetchUrls : Growth(url) = FinishedOf(url)

\* C28 witness: MaxCalls calls for one URL that already had a record, all
\* in progress together at some point, have finished and the count is
\* MaxCalls higher.
C28_Witness ==
    /\ call.fn = "overlap"
    /\ \E url \in FetchUrls :
          /\ call.base[url].present
          /\ call.overlapped[url]
          /\ FinishedOf(url) = MaxCalls
          /\ usageStore[url].count = call.base[url].count + MaxCalls

---------------------------------------------------------------------------
(* Properties of the debug flag *)

\* what a run shows apart from its console: the configuration without the
\* debug flag, the usage store and its queue, the cache and its pending
\* writes, and the request with its response
Observable(s) == [s EXCEPT !.cfg.debug = FALSE, !.console = FALSE]

\* C21: the debug flag never influences behaviour. Two runs that receive
\* the same events, with configurations that differ only in debug, hold at
\* every moment the same usage store, the same cache and pending cache
\* writes, and the same request state and response, so their sequences of
\* usage updates, cache writes and responses are identical.
C21_DebugChangesNothing ==
    call.fn = "debug" => Observable(call.runs[1]) = Observable(call.runs[2])

\* C21 witness: one run has debug set and has written to the console, the
\* other has not; both have cached the response of a first request and
\* answered a second request, whose network attempt failed, from the cache.
C21_Witness ==
    /\ call.fn = "debug"
    /\ call.runs[1].cfg.debug /\ call.runs[1].console
    /\ ~call.runs[2].cfg.debug /\ ~call.runs[2].console
    /\ \A i \in 1..2 :
          /\ call.runs[i].req.pc = "responded"
          /\ call.runs[i].req.response = "cached"
          /\ call.runs[i].usage[call.runs[i].req.url].count = 2

---------------------------------------------------------------------------
(* Properties of the failure path *)

\* C31: on the failure path the fallback does not depend on priority: the
\* step that answers a request whose network attempt failed returns the
\* cache entry of the URL whenever the cache holds one, whatever
\* isHighPriority gave and whatever usage record it was given.
C31_FallbackIgnoresPriority ==
    [][\A r \in Slots :
          (reqs[r].pc = "awaitMatch" /\ reqs'[r].pc = "responded"
              /\ cacheStore[reqs[r].url].present)
              => reqs'[r].response = "cached"]_vars

\* C31 witness: a request whose network attempt failed was answered from
\* the cache although isHighPriority was false for its URL.
C31_Witness ==
    \E r \in Slots :
        /\ Failed(r)
        /\ reqs[r].evaluated
        /\ ~reqs[r].highPriority
        /\ reqs[r].response = "cached"

---------------------------------------------------------------------------
(* Properties of the usage lookup *)

C33_GetUsageNeverFails ==
    call.fn = "storage" =>
        \A id \in 1..MaxLookups :
            LET l == call.lookups[id]
            IN  /\ l.result.kind # "rejected"
                /\ l.pc # "rejected"
                /\ l.failed => l.result.kind \in {"pending", "null"}
                /\ l.result.kind = "record" =>
                      (~l.failed /\ l.result.usage.present)
                /\ (l.pc \in {"match", "responded"}
                        /\ l.result.kind \in {"undefined", "null"})
                      => l.highPriority
                           = swIsHighPriority(NoUsage, l.url, SDK_CONFIG, now)

\* C33 witness: a lookup for a URL that has a record met a storage error and
\* resolved with no record, another for a URL never tracked resolved with no
\* record, and both requests were answered.
C33_Witness ==
    /\ call.fn = "storage"
    /\ \E i, j \in 1..MaxLookups :
          /\ call.lookups[i].failed
          /\ call.lookups[i].result.kind = "null"
          /\ usageStore[call.lookups[i].url].present
          /\ call.lookups[i].pc = "responded"
          /\ ~call.lookups[j].failed
          /\ call.lookups[j].result.kind = "undefined"
          /\ call.lookups[j].pc = "responded"

---------------------------------------------------------------------------
(* Properties of the size check of the fetch handler *)

\* a text with a number at its start, after white space and a sign
LeadsWithNumber(s) ==
    \E i \in 1..Len(s) :
        /\ s[i] \in Digits
        /\ \/ \A j \in 1..(i - 1) : s[j] = " "
           \/ /\ i >= 2
              /\ s[i - 1] \in {"+", "-"}
              /\ \A j \in 1..(i - 2) : s[j] = " "

\* a content-length header that is missing, and one that gives no number
Missing(header) ==
    header.kind = "absent" \/ (header.kind = "text" /\ header.s = <<>>)
Unparsable(header) ==
    \/ header.kind = "garbage"
    \/ header.kind = "text" /\ header.s # <<>> /\ ~LeadsWithNumber(header.s)

\* C34: a response whose content-length header is missing or unparsable is
\* never rejected by the size check, for every maxResourceSize from 0 up,
\* as a response of size 0 is not: a missing header gives size 0, and an
\* unparsable one a size that is above no limit.
C34_UnknownSizeNeverRejected ==
    (call.fn = "worker.sizeCheck" /\ call.done) =>
        /\ Missing(call.header) => (call.size = Num(0) /\ ~call.value)
        /\ Unparsable(call.header) =>
              (~call.value /\ call.value = Oversize(Num(0), SDK_CONFIG))

\* C34 witness: with maxResourceSize 0, a response whose content-length is
\* a text without a number has passed the size check.
C34_Witness ==
    /\ call.fn = "worker.sizeCheck"
    /\ call.done
    /\ SDK_CONFIG.maxResourceSize = Num(0)
    /\ call.header = Text(<<"x", "3">>)
    /\ ~call.value

---------------------------------------------------------------------------
(* Properties of the configuration message *)

\* C35 (as claimed): after a configuration message whose payload omits
\* some fields, the watch filter, the size check, the network-quality gate
\* and the priority are decided as under the same configuration with
\* frequencyThreshold 3, recencyThreshold 24h, unbounded maxResourceSize,
\* 'auto' and no significance in the omitted fields.
C35_OmittedFieldsDefaulted ==
    (call.fn = "worker.decisions" /\ call.done) =>
        call.value = Decisions(WithDefaults(call.omitted), call.usage,
                               call.url, call.t, call.header, call.conn)

\* C36: the configuration changes only in a step of the message listener
\* on a message tagged INIT_CONFIG, and is then the payload of that message
\* as a whole; a message with another tag or without data, a fetch event
\* and its callbacks, the install event and the activate event leave it
\* as it was.
C36_ConfigChangesOnlyByInitConfig ==
    [][/\ SDK_CONFIG' # SDK_CONFIG =>
              \E data \in MessageData :
                  /\ data.present
                  /\ data.type = "INIT_CONFIG"
                  /\ MessageEvent(data)
       /\ \A data \in MessageData :
              (MessageEvent(data) /\ data.present /\ data.type = "INIT_CONFIG")
                  => SDK_CONFIG' = data.payload]_vars

\* C36 witness: the worker was installed and activated, which deleted the
\* old bucket, received a configuration and answered a fetch event.
C36_Witness ==
    /\ lifecycle.phase = "activated"
    /\ cacheNames = {CACHE_NAME}
    /\ SDK_CONFIG \in Payloads
    /\ \E r \in Slots : reqs[r].pc = "responded" /\ reqs[r].response = "cached"

---------------------------------------------------------------------------
(* Properties of the configuration a request reads *)

\* the step takes the size check, the network-quality gate or the priority
\* evaluation of the request being handled
Decides ==
    /\ call.fn = "snapshot"
    /\ call'.run.cfg = call.run.cfg
    /\ \/ /\ call.run.req.pc = "network"
          /\ call'.run.req.pc \in {"responded", "awaitUsage"}
       \/ /\ call.run.req.pc \in {"awaitUsage", "awaitUsageFail"}
          /\ call'.run.req.pc # call.run.req.pc

\* C37 (as claimed): an intercepted request takes all of its decisions
\* against one configuration: the size check, the network-quality gate and
\* the priority evaluation read the configuration the watch filter of the
\* same request read, also when a configuration message arrived while the
\* request was suspended on the network or on the usage store.
C37_OneConfigurationPerRequest ==
    [][Decides => call.run.cfg = call.at]_vars

---------------------------------------------------------------------------
(* Properties of the stores *)

\* C38: each persisted usage record has a count of 1 or more and a
\* lastAccessed that is a reading of the clock, the one of the step that
\* wrote it, not the 0 of the zero record (the clock of the model counts
\* from the start of the run; Date.now() is positive throughout); no step
\* removes a record or lowers its count.
C38_RecordsCountedAndKept ==
    /\ [](\A u \in FetchUrls :
            usageStore[u].present =>
                usageStore[u].count >= 1 /\ usageStore[u].lastAccessed \in 0..now)
    /\ [][\A u \in FetchUrls :
            /\ usageStore[u].present =>
                  /\ usageStore'[u].present
                  /\ usageStore'[u].count >= usageStore[u].count
            /\ usageStore'[u] # usageStore[u] =>
                  /\ usageStore'[u].present
                  /\ usageStore'[u].lastAccessed = now]_vars

\* C38 witness: the record an earlier version left has outlived the
\* activation that deleted the old bucket and was counted up, and a record
\* was created for another URL after the clock advanced.
C38_Witness ==
    /\ lifecycle.phase = "activated"
    /\ cacheNames = {CACHE_NAME}
    /\ usageStore[<<"b">>].count = 2
    /\ usageStore[<<"a", "1", "2">>] = Usage(1, MaxTime)

\* the step in which the success handler of request r returns the response
\* of the network
SuccessStep(r) ==
    /\ reqs[r].pc \in {"network", "awaitUsage"}
    /\ reqs[r].method = "GET"
    /\ reqs'[r].pc = "responded"
    /\ reqs'[r].path = "success"
    /\ reqs'[r].response = "network"
    /\ reqs'[r].url = reqs[r].url

\* C39: the cache is written only on the success path and under the URL of
\* the request being handled. A cache write is issued only in the step in
\* which the success handler of a GET request that passed the watch filter
\* returns, and under that request's URL; an entry changes only when such a
\* write is carried out, under the write's URL; no step of a request whose
\* network attempt failed issues a write or changes an entry. Hence every
\* key in the cache, and every key of a pending write, is a URL that some
\* configuration watches and whose access was recorded.
C39_CacheWrittenOnSuccessOnly ==
    /\ [](\A u \in FetchUrls :
            (cacheStore[u].present \/ \E w \in cacheQueue : w.url = u)
                => /\ Counted(u) >= 1
                   /\ \E payload \in Payloads : Watched(u, payload))
    /\ [][/\ \A w \in Issued :
                \E r \in Slots : SuccessStep(r) /\ w.url = reqs[r].url
          /\ \A u \in FetchUrls :
                cacheStore'[u] # cacheStore[u] =>
                    \E w \in cacheQueue \ cacheQueue' :
                        w.url = u /\ cacheStore'[u].present
          /\ \A r \in Slots :
                (reqs'[r] # reqs[r] /\ reqs'[r].path = "failure")
                    => Issued = {} /\ cacheStore' = cacheStore]_vars

\* C39 witness: one URL was cached after its network response, and a
\* request for another URL whose network attempt failed was answered
\* without an entry or a write for its URL.
C39_Witness ==
    /\ cacheStore[<<"a", "1", "2">>].present
    /\ ~cacheStore[<<"b">>].present
    /\ cacheQueue = {}
    /\ \E r \in Slots : Failed(r) /\ reqs[r].url = <<"b">>

====
